---------------------------- MODULE Spec2Model ----------------------------
(***************************************************************************)
(* A model of the QueryHub gateway (aniketduttaAD/query-hub): the Redis    *)
(* fixed-window rate limiter, the session/connection manager, the SQL      *)
(* adapters' transaction handle, request signing on the signed endpoints   *)
(* and the connect / execute / export / schema / session-extend routes.    *)
(* Each subsystem has its own variables and its own specification; the     *)
(* other subsystems' variables stay unchanged under it.                    *)
(***************************************************************************)
EXTENDS Integers, Sequences, FiniteSets, TLC

(* The absent value of an optional record (null / undefined). *)
Nil == [nil |-> TRUE]

Max2(a, b) == IF a >= b THEN a ELSE b

(* Math.ceil(a / b) for an integer a (possibly negative) and b > 0. *)
CeilDiv(a, b) == IF a >= 0 THEN (a + b - 1) \div b ELSE -((-a) \div b)

(***************************************************************************)
(* Rate limiter (src/lib/rateLimit.ts).                                    *)
(* Time is counted in ticks; SecTicks ticks make the one second in which   *)
(* Redis measures a TTL and WindowSecs seconds make options.windowMs.      *)
(***************************************************************************)
SecTicks == 2
WindowSecs == 2
RLMax == 2
RLMaxTime == 10
RLMaxLatency == 1
RLMaxCalls == 4

WindowMs == WindowSecs * SecTicks

VARIABLES
    rlNow,      \* Date.now()
    rlStore,    \* the Redis key <prefix>:<ip>: Nil or [count, resetTime, expireAt]
    rlLast,     \* the last limiter call: what it read, returned and left stored
    rlWinCalls  \* history: calls made to the limiter since the stored window was opened

rlVars == <<rlNow, rlStore, rlLast, rlWinCalls>>

(* What a limiter call meets in the store: "ok" (available), getRedisClient
   throwing, redis.get throwing or returning unparsable data, redis.setex
   throwing, or both the read and the write failing. *)
RLFailures == {"client", "read", "write", "readwrite"}

(* redis.get + JSON.parse: the record while the key has not expired; null when
   the key is missing or the read throws. *)
getRateLimitRecord(store, now, fail) ==
    IF fail \in {"read", "readwrite"} THEN Nil
    ELSE IF store = Nil THEN Nil
    ELSE IF now >= store.expireAt THEN Nil
    ELSE [count |-> store.count, resetTime |-> store.resetTime]

(* redis.setex(key, max(ceil((resetTime - Date.now()) / 1000), 1), ...): the
   key as stored, or the store unchanged when the write throws (swallowed). *)
setRateLimitRecord(store, count, resetTime, at, fail) ==
    IF fail \in {"write", "readwrite"} THEN store
    ELSE [count |-> count, resetTime |-> resetTime,
          expireAt |-> at + Max2(CeilDiv(resetTime - at, SecTicks), 1) * SecTicks]

(* The mutant of RateLimitCatch below: a limiter that fails closed. *)
RateLimitCatchDenies(now) ==
    [success |-> FALSE, remaining |-> 0, resetTime |-> now + WindowMs, threw |-> FALSE]

(* The catch branch of limit(): allow the request. *)
RateLimitCatch(now) ==
    [success |-> TRUE, remaining |-> RLMax, resetTime |-> now + WindowMs, threw |-> FALSE]

(* The mutant of LimitOutcome below: the comparison count > max instead of
   count >= max lets one request too many through. *)
LimitOutcomeOffByOne(record, now) ==
    IF record = Nil \/ now > record.resetTime
    THEN [success |-> TRUE, remaining |-> RLMax - 1, resetTime |-> now + WindowMs,
          write |-> [count |-> 1, resetTime |-> now + WindowMs]]
    ELSE IF record.count > RLMax
    THEN [success |-> FALSE, remaining |-> 0, resetTime |-> record.resetTime, write |-> Nil]
    ELSE [success |-> TRUE, remaining |-> RLMax - (record.count + 1),
          resetTime |-> record.resetTime,
          write |-> [count |-> record.count + 1, resetTime |-> record.resetTime]]

(* The body of limit() between the read and the return: the result and the
   record it writes (Nil: it writes nothing). *)
LimitOutcome(record, now) ==
    IF record = Nil \/ now > record.resetTime
    THEN [success |-> TRUE, remaining |-> RLMax - 1, resetTime |-> now + WindowMs,
          write |-> [count |-> 1, resetTime |-> now + WindowMs]]
    ELSE IF record.count >= RLMax
    THEN [success |-> FALSE, remaining |-> 0, resetTime |-> record.resetTime, write |-> Nil]
    ELSE [success |-> TRUE, remaining |-> RLMax - (record.count + 1),
          resetTime |-> record.resetTime,
          write |-> [count |-> record.count + 1, resetTime |-> record.resetTime]]

(* One call limit(key), start to return, with the storage failure it meets
   ("ok": the store is available) and the ticks that pass between its
   Date.now() and the one setRateLimitRecord takes. A write failure is met
   only by a call that writes. opens and index are history: whether the call
   found no record or an ended window, and the call's place in its window. *)
limit(fail, latency) ==
    /\ rlNow + latency <= RLMaxTime
    /\ rlWinCalls < RLMaxCalls \/ getRateLimitRecord(rlStore, rlNow, "ok") = Nil
    /\ fail = "write" => LimitOutcome(getRateLimitRecord(rlStore, rlNow, fail), rlNow).write # Nil
    /\ LET now == rlNow
           record == getRateLimitRecord(rlStore, now, fail)
           out == LimitOutcome(record, now)
           opens == record = Nil \/ now > record.resetTime
           stored == IF out.write = Nil THEN rlStore
                     ELSE setRateLimitRecord(rlStore, out.write.count, out.write.resetTime,
                                             now + latency, fail)
       IN IF fail = "client"
          THEN /\ rlLast' = [fail |-> fail, now |-> now, read |-> Nil, opens |-> FALSE,
                             result |-> RateLimitCatch(now), before |-> rlStore,
                             after |-> rlStore, index |-> rlWinCalls]
               /\ UNCHANGED <<rlStore, rlWinCalls>>
          ELSE /\ rlStore' = stored
               /\ rlWinCalls' = IF opens THEN 1 ELSE rlWinCalls + 1
               /\ rlLast' = [fail |-> fail, now |-> now, read |-> record, opens |-> opens,
                             result |-> [success |-> out.success, remaining |-> out.remaining,
                                         resetTime |-> out.resetTime, threw |-> FALSE],
                             before |-> rlStore, after |-> stored,
                             index |-> IF opens THEN 1 ELSE rlWinCalls + 1]
    /\ rlNow' = rlNow + latency

RLTick ==
    /\ rlNow < RLMaxTime
    /\ rlNow' = rlNow + 1
    /\ UNCHANGED <<rlStore, rlLast, rlWinCalls>>

RLInit ==
    /\ rlNow = 0
    /\ rlStore = Nil
    /\ rlLast = Nil
    /\ rlWinCalls = 0

RLCall == \E latency \in 0..RLMaxLatency : limit("ok", latency)

RLCallFailing == \E fail \in RLFailures, latency \in 0..RLMaxLatency : limit(fail, latency)

(***************************************************************************)
(* ConnectionManager (src/lib/ConnectionManager.ts, first version: idle    *)
(* timers per session and the periodic sweep).                             *)
(* An async method is cut at its awaits: what runs between two awaits is   *)
(* one step.                                                               *)
(***************************************************************************)
CMMaxSessions == 2
CMMaxCreators == 2
CMIdleTimeout == 2
CMMaxTime == 3

CMUsers == {"u1", "u2"}
NoUser == "none"
CMIds == 1..CMMaxSessions
CMCreators == 1..CMMaxCreators

VARIABLES
    cmNow,           \* Date.now()
    sessions,        \* sessions: id -> Nil or the Session record
    userSessions,    \* userSessions: userId -> session id, 0 when there is no entry
    sessionTimeouts, \* sessionTimeouts: id -> the time its timer is due, 0 when there is none
    cleanupInterval, \* whether the sweep interval is set
    cmNextId,        \* the next randomUUID()
    cmCreating,      \* createSession calls in flight, each with the await it is at
    cmClosing,       \* closeSession calls waiting for adapter.disconnect()
    cmSweep,         \* sessionsToClose of the sweep in flight, from the one being closed on
    cmEvicted        \* history: the last closeSession the background eviction started

cmVars == <<cmNow, sessions, userSessions, sessionTimeouts, cleanupInterval, cmNextId,
            cmCreating, cmClosing, cmSweep, cmEvicted>>

CMIdleCreator == [pc |-> "idle", userId |-> NoUser, isDefaultConnection |-> FALSE]

CMInit ==
    /\ cmNow = 0
    /\ sessions = [s \in CMIds |-> Nil]
    /\ userSessions = [u \in CMUsers |-> 0]
    /\ sessionTimeouts = [s \in CMIds |-> 0]
    /\ cleanupInterval = FALSE
    /\ cmNextId = 1
    /\ cmCreating = [c \in CMCreators |-> CMIdleCreator]
    /\ cmClosing = {}
    /\ cmSweep = <<>>
    /\ cmEvicted = Nil

(* closeSession up to its await: the timer is cleared and the call waits for
   adapter.disconnect(); nothing happens for an id that is not in sessions. *)
closeSessionBegin(sess, timeouts, closing, sid, owner, c) ==
    IF sess[sid] = Nil
    THEN [timeouts |-> timeouts, closing |-> closing]
    ELSE [timeouts |-> [timeouts EXCEPT ![sid] = 0],
          closing |-> closing \cup {[owner |-> owner, c |-> c, sid |-> sid,
                                     userId |-> sess[sid].userId]}]

(* closeSession after its await: the session leaves sessions, its userSessions
   entry goes if it still points at it, and the sweep interval is stopped when
   no session is left. *)
closeSessionEnd(sess, users, interval, t) ==
    LET sess2 == [sess EXCEPT ![t.sid] = Nil]
    IN [sessions |-> sess2,
        userSessions |-> IF t.userId # NoUser /\ users[t.userId] = t.sid
                         THEN [users EXCEPT ![t.userId] = 0] ELSE users,
        cleanupInterval |-> IF \A s \in CMIds : sess2[s] = Nil THEN FALSE ELSE interval]

(* The ids of the sessions idle for the timeout or longer, in the iteration
   order of the Map (insertion order, which is the order of the ids). *)
IdleSessions(sess, now) ==
    SelectSeq([i \in 1..CMMaxSessions |-> i],
              LAMBDA s : sess[s] # Nil /\ now - sess[s].lastActivity >= CMIdleTimeout)

(* The sweep's loop passes over an id whose closeSession finds no session. *)
RECURSIVE SkipClosed(_, _)
SkipClosed(queue, sess) ==
    IF queue = <<>> THEN <<>>
    ELSE IF sess[Head(queue)] = Nil THEN SkipClosed(Tail(queue), sess)
    ELSE queue

Eviction(sess, sid, now, by) ==
    [sid |-> sid, idle |-> now - sess[sid].lastActivity, by |-> by]

(* createSession up to its first await: the previous session of the user, if
   there is one, is being closed; otherwise the adapter is connecting. *)
createSessionStart(c, u, d) ==
    /\ cmCreating[c].pc = "idle"
    /\ cmNextId + Cardinality({k \in CMCreators : cmCreating[k].pc # "idle"}) <= CMMaxSessions
    /\ LET previousSessionId == IF u # NoUser THEN userSessions[u] ELSE 0
           closes == previousSessionId # 0 /\ sessions[previousSessionId] # Nil
           begun == IF previousSessionId # 0
                    THEN closeSessionBegin(sessions, sessionTimeouts, cmClosing,
                                           previousSessionId, "create", c)
                    ELSE [timeouts |-> sessionTimeouts, closing |-> cmClosing]
       IN /\ sessionTimeouts' = begun.timeouts
          /\ cmClosing' = begun.closing
          /\ cmCreating' = [cmCreating EXCEPT ![c] =
                 [pc |-> IF closes THEN "closing" ELSE "connecting",
                  userId |-> u, isDefaultConnection |-> d]]
    /\ UNCHANGED <<cmNow, sessions, userSessions, cleanupInterval, cmNextId, cmSweep, cmEvicted>>

(* createSession after adapter.connect() and getServerVersion(): the session
   is recorded, userSessions points at it, its idle timer and the sweep
   interval are set. *)
createSessionFinish(c) ==
    /\ cmCreating[c].pc = "connecting"
    /\ LET sessionId == cmNextId
           userId == cmCreating[c].userId
       IN /\ sessions' = [sessions EXCEPT ![sessionId] =
                 [userId |-> userId, lastActivity |-> cmNow,
                  isDefaultConnection |-> cmCreating[c].isDefaultConnection,
                  allowDestructive |-> FALSE]]
          /\ userSessions' = IF userId # NoUser
                             THEN [userSessions EXCEPT ![userId] = sessionId]
                             ELSE userSessions
          /\ sessionTimeouts' = [sessionTimeouts EXCEPT ![sessionId] = cmNow + CMIdleTimeout]
    /\ cleanupInterval' = TRUE
    /\ cmNextId' = cmNextId + 1
    /\ cmCreating' = [cmCreating EXCEPT ![c] = CMIdleCreator]
    /\ UNCHANGED <<cmNow, cmClosing, cmSweep, cmEvicted>>

(* adapter.connect() or getServerVersion() throws: createSession rejects. *)
createSessionFail(c) ==
    /\ cmCreating[c].pc = "connecting"
    /\ cmCreating' = [cmCreating EXCEPT ![c] = CMIdleCreator]
    /\ UNCHANGED <<cmNow, sessions, userSessions, sessionTimeouts, cleanupInterval, cmNextId,
                   cmClosing, cmSweep, cmEvicted>>

getSession(sid) ==
    /\ sessions[sid] # Nil
    /\ sessions' = [sessions EXCEPT ![sid].lastActivity = cmNow]
    /\ sessionTimeouts' = [sessionTimeouts EXCEPT ![sid] = cmNow + CMIdleTimeout]
    /\ UNCHANGED <<cmNow, userSessions, cleanupInterval, cmNextId, cmCreating, cmClosing,
                   cmSweep, cmEvicted>>

setSessionAllowDestructive(sid) ==
    /\ sessions[sid] # Nil
    /\ sessions[sid].isDefaultConnection
    /\ sessions' = [sessions EXCEPT ![sid].allowDestructive = TRUE,
                                    ![sid].lastActivity = cmNow]
    /\ UNCHANGED <<cmNow, userSessions, sessionTimeouts, cleanupInterval, cmNextId, cmCreating,
                   cmClosing, cmSweep, cmEvicted>>

(* closeSession called by the disconnect route. *)
closeSession(sid) ==
    /\ sessions[sid] # Nil
    /\ \A t \in cmClosing : ~(t.owner = "route" /\ t.sid = sid)
    /\ LET begun == closeSessionBegin(sessions, sessionTimeouts, cmClosing, sid, "route", 0)
       IN /\ sessionTimeouts' = begun.timeouts
          /\ cmClosing' = begun.closing
    /\ UNCHANGED <<cmNow, sessions, userSessions, cleanupInterval, cmNextId, cmCreating,
                   cmSweep, cmEvicted>>

(* The idle timer of a session fires. *)
handleSessionTimeout(sid) ==
    /\ sessionTimeouts[sid] # 0
    /\ cmNow >= sessionTimeouts[sid]
    /\ LET spent == [sessionTimeouts EXCEPT ![sid] = 0]
           expired == sessions[sid] # Nil /\ cmNow - sessions[sid].lastActivity >= CMIdleTimeout
           begun == IF expired
                    THEN closeSessionBegin(sessions, spent, cmClosing, sid, "timer", 0)
                    ELSE [timeouts |-> spent, closing |-> cmClosing]
       IN /\ sessionTimeouts' = begun.timeouts
          /\ cmClosing' = begun.closing
          /\ cmEvicted' = IF expired THEN Eviction(sessions, sid, cmNow, "timer") ELSE cmEvicted
    /\ UNCHANGED <<cmNow, sessions, userSessions, cleanupInterval, cmNextId, cmCreating, cmSweep>>

(* The sweep interval fires: the idle sessions are listed and closeSession of
   the first one is awaited. *)
cleanupIdleSessions ==
    /\ cleanupInterval
    /\ cmSweep = <<>>
    /\ LET sessionsToClose == IdleSessions(sessions, cmNow)
       IN /\ sessionsToClose # <<>>
          /\ LET begun == closeSessionBegin(sessions, sessionTimeouts, cmClosing,
                                            Head(sessionsToClose), "sweep", 0)
             IN /\ sessionTimeouts' = begun.timeouts
                /\ cmClosing' = begun.closing
          /\ cmSweep' = sessionsToClose
          /\ cmEvicted' = Eviction(sessions, Head(sessionsToClose), cmNow, "sweep")
    /\ UNCHANGED <<cmNow, sessions, userSessions, cleanupInterval, cmNextId, cmCreating>>

(* adapter.disconnect() of a closeSession call settles: closeSession finishes
   and its caller goes on to its next await (createSession to connecting, the
   sweep to closeSession of the next listed session). *)
closeSessionFinish(t) ==
    /\ t \in cmClosing
    /\ LET ended == closeSessionEnd(sessions, userSessions, cleanupInterval, t)
           rest == IF t.owner = "sweep" THEN SkipClosed(Tail(cmSweep), ended.sessions)
                   ELSE cmSweep
           resumes == t.owner = "sweep" /\ rest # <<>>
           begun == IF resumes
                    THEN closeSessionBegin(ended.sessions, sessionTimeouts, cmClosing \ {t},
                                           Head(rest), "sweep", 0)
                    ELSE [timeouts |-> sessionTimeouts, closing |-> cmClosing \ {t}]
       IN /\ sessions' = ended.sessions
          /\ userSessions' = ended.userSessions
          /\ cleanupInterval' = ended.cleanupInterval
          /\ sessionTimeouts' = begun.timeouts
          /\ cmClosing' = begun.closing
          /\ cmSweep' = rest
          /\ cmEvicted' = IF resumes THEN Eviction(ended.sessions, Head(rest), cmNow, "sweep")
                          ELSE cmEvicted
          /\ cmCreating' = IF t.owner = "create"
                           THEN [cmCreating EXCEPT ![t.c].pc = "connecting"]
                           ELSE cmCreating
    /\ UNCHANGED <<cmNow, cmNextId>>

CMTick ==
    /\ cmNow < CMMaxTime
    /\ cmNow' = cmNow + 1
    /\ UNCHANGED <<sessions, userSessions, sessionTimeouts, cleanupInterval, cmNextId,
                   cmCreating, cmClosing, cmSweep, cmEvicted>>

CMCreate ==
    \E c \in CMCreators, u \in CMUsers \cup {NoUser}, d \in BOOLEAN : createSessionStart(c, u, d)

CMCreated == \E c \in CMCreators : createSessionFinish(c)

CMCreateFailed == \E c \in CMCreators : createSessionFail(c)

CMGetSession == \E sid \in CMIds : getSession(sid)

CMAllowDestructive == \E sid \in CMIds : setSessionAllowDestructive(sid)

CMDisconnect == \E sid \in CMIds : closeSession(sid)

CMTimer == \E sid \in CMIds : handleSessionTimeout(sid)

CMClosed == \E t \in cmClosing : closeSessionFinish(t)

(***************************************************************************)
(* The transaction handle of the SQL adapters (PostgresAdapter in          *)
(* src/unnamed/part_022; MySQLAdapter has the same shape with              *)
(* transactionConnection and pool.getConnection()), driven by the          *)
(* transaction route, whose requests overlap at the adapter's awaits.      *)
(***************************************************************************)
TxMaxClients == 2
TxMaxCalls == 2

TxClients == 1..TxMaxClients
TxCalls == 1..TxMaxCalls

VARIABLES
    transactionClient, \* this.transactionClient: a pool client, 0 for null
    txPool,            \* the pool: per client, checked out or not, in a transaction or not
    txCalls,           \* begin / commit / rollback calls in flight, with the await each is at
    txLast             \* the last call that returned: its action and outcome

txVars == <<transactionClient, txPool, txCalls, txLast>>

TxIdleCall == [pc |-> "idle", action |-> "none", client |-> 0]

TXInit ==
    /\ transactionClient = 0
    /\ txPool = [c \in TxClients |-> [out |-> FALSE, inTx |-> FALSE]]
    /\ txCalls = [k \in TxCalls |-> TxIdleCall]
    /\ txLast = Nil

TxResult(action, ok, error) ==
    [action |-> action, ok |-> ok, error |-> error, handle |-> transactionClient]

(* beginTransaction up to `await this.pool.connect()`. *)
beginTransaction(k) ==
    /\ txCalls[k].pc = "idle"
    /\ IF transactionClient # 0
       THEN /\ txLast' = TxResult("begin", FALSE, "Transaction already active")
            /\ UNCHANGED txCalls
       ELSE /\ txCalls' = [txCalls EXCEPT ![k] =
                               [pc |-> "connect", action |-> "begin", client |-> 0]]
            /\ UNCHANGED txLast
    /\ UNCHANGED <<transactionClient, txPool>>

(* pool.connect() resolves with a free client; client.query('BEGIN') is sent. *)
beginConnected(k, c) ==
    /\ txCalls[k].pc = "connect"
    /\ ~txPool[c].out
    /\ txPool' = [txPool EXCEPT ![c].out = TRUE]
    /\ txCalls' = [txCalls EXCEPT ![k] = [pc |-> "begin", action |-> "begin", client |-> c]]
    /\ UNCHANGED <<transactionClient, txLast>>

(* BEGIN is answered: the client becomes the adapter's transactionClient; or
   BEGIN throws: the client is released and the error goes to the route. *)
beginSettled(k, ok) ==
    /\ txCalls[k].pc = "begin"
    /\ LET client == txCalls[k].client
       IN IF ok
          THEN /\ txPool' = [txPool EXCEPT ![client].inTx = TRUE]
               /\ transactionClient' = client
               /\ txLast' = [action |-> "begin", ok |-> TRUE, error |-> "", handle |-> client]
          ELSE /\ txPool' = [txPool EXCEPT ![client].out = FALSE]
               /\ txLast' = TxResult("begin", FALSE, "query failed")
               /\ UNCHANGED transactionClient
    /\ txCalls' = [txCalls EXCEPT ![k] = TxIdleCall]

(* commitTransaction / rollbackTransaction up to the await of the query on
   this.transactionClient. *)
endTransaction(k, action) ==
    /\ txCalls[k].pc = "idle"
    /\ IF transactionClient = 0
       THEN /\ txLast' = TxResult(action, FALSE, "No active transaction")
            /\ UNCHANGED txCalls
       ELSE /\ txCalls' = [txCalls EXCEPT ![k] =
                               [pc |-> "end", action |-> action, client |-> transactionClient]]
            /\ UNCHANGED txLast
    /\ UNCHANGED <<transactionClient, txPool>>

(* endSettled below without its finally block: a COMMIT / ROLLBACK that
   throws leaves the client checked out and the handle set. *)
endSettledNoFinally(k, ok) ==
    /\ txCalls[k].pc = "end"
    /\ LET sent == txCalls[k].client
           ended == IF ok THEN [txPool EXCEPT ![sent].inTx = FALSE] ELSE txPool
       IN IF transactionClient = 0
          THEN /\ txPool' = ended
               /\ txLast' = TxResult(txCalls[k].action, FALSE, "TypeError")
               /\ UNCHANGED transactionClient
          ELSE IF ok
          THEN /\ txPool' = [ended EXCEPT ![transactionClient].out = FALSE]
               /\ transactionClient' = 0
               /\ txLast' = [action |-> txCalls[k].action, ok |-> ok, error |-> "",
                             handle |-> 0]
          ELSE /\ txPool' = ended
               /\ txLast' = TxResult(txCalls[k].action, FALSE, "query failed")
               /\ UNCHANGED transactionClient
    /\ txCalls' = [txCalls EXCEPT ![k] = TxIdleCall]

(* COMMIT / ROLLBACK settles; the finally block releases whatever
   this.transactionClient is by now (a TypeError when it is null) and sets it
   to null. *)
endSettled(k, ok) ==
    /\ txCalls[k].pc = "end"
    /\ LET sent == txCalls[k].client
           ended == IF ok THEN [txPool EXCEPT ![sent].inTx = FALSE] ELSE txPool
       IN IF transactionClient = 0
          THEN /\ txPool' = ended
               /\ txLast' = TxResult(txCalls[k].action, FALSE, "TypeError")
               /\ UNCHANGED transactionClient
          ELSE /\ txPool' = [ended EXCEPT ![transactionClient].out = FALSE]
               /\ transactionClient' = 0
               /\ txLast' = [action |-> txCalls[k].action, ok |-> ok,
                             error |-> IF ok THEN "" ELSE "query failed", handle |-> 0]
    /\ txCalls' = [txCalls EXCEPT ![k] = TxIdleCall]

TxBegin == \E k \in TxCalls : beginTransaction(k)

TxConnected == \E k \in TxCalls, c \in TxClients : beginConnected(k, c)

TxBeginSettled == \E k \in TxCalls, ok \in BOOLEAN : beginSettled(k, ok)

TxEnd == \E k \in TxCalls, action \in {"commit", "rollback"} : endTransaction(k, action)

TxEndSettled == \E k \in TxCalls, ok \in BOOLEAN : endSettled(k, ok)

(***************************************************************************)
(* Request signing (src/lib/requestSigning.ts) and the order of checks on  *)
(* the signed endpoints. One session S with signing key "K" exists; a      *)
(* request names S, names another id, or fails a check on its body.        *)
(* HMAC-SHA256 is an ideal MAC: the tag of (key, timestamp, payload) is    *)
(* that triple. A header carries the tag as hex text in one of the forms   *)
(* Buffer.from(text, 'hex') tells apart or not.                            *)
(***************************************************************************)
AuMaxTime == 2
AuMaxSkew == 1

Abs(x) == IF x >= 0 THEN x ELSE -x

(* The x-timestamp header: text that Number() reads as a time, or text it
   reads as NaN. *)
AuTimestamps ==
    {[numeric |-> TRUE, value |-> t] : t \in 0..AuMaxTime} \cup {[numeric |-> FALSE, value |-> 0]}

(* A timestamp text no request sends as its header. *)
AuOtherTimestamp == [numeric |-> TRUE, value |-> AuMaxTime + 1]

(* What the sender of an x-signature did: the lowercase hex digest for the
   request as sent; the same digest in uppercase, followed by non-hex
   characters, or cut by one byte; the digest under another key, for another
   timestamp text or for another payload. *)
AuSignatureKinds ==
    {"hex", "upper", "trailing", "short", "wrongKey", "wrongTimestamp", "wrongPayload"}

createSignature(signingKey, payload, timestamp) ==
    [form |-> "hex", mac |-> <<signingKey, timestamp, payload>>]

AuSignature(kind, payload, timestamp) ==
    LET ts == IF timestamp = Nil THEN AuOtherTimestamp ELSE timestamp
    IN CASE kind = "wrongKey" -> createSignature("K2", payload, ts)
         [] kind = "wrongTimestamp" ->
                createSignature("K", payload, [ts EXCEPT !.value = ts.value + 1])
         [] kind = "wrongPayload" -> createSignature("K", "other", ts)
         [] OTHER -> [createSignature("K", payload, ts) EXCEPT !.form = kind]

(* Buffer.from(text, 'hex'): case is ignored and decoding stops at the first
   character that is not a hex digit. *)
HexDecode(signature) ==
    [bytes |-> signature.mac, whole |-> signature.form # "short"]

isSignatureValid(signingKey, payload, timestamp, signature) ==
    LET expectedBuffer == HexDecode(createSignature(signingKey, payload, timestamp))
        signatureBuffer == HexDecode(signature)
    IN /\ expectedBuffer.whole = signatureBuffer.whole
       /\ expectedBuffer.bytes = signatureBuffer.bytes

isTimestampFresh(timestamp, now) ==
    /\ timestamp.numeric
    /\ Abs(now - timestamp.value) <= AuMaxSkew

(* The mutant of validateRequestSignature below: no freshness check. *)
validateRequestSignatureAnyAge(signingKey, payload, timestamp, signature, now) ==
    IF timestamp = Nil \/ signature = Nil THEN "missing"
    ELSE IF ~isSignatureValid(signingKey, payload, timestamp, signature) THEN "mismatch"
    ELSE "valid"

validateRequestSignature(signingKey, payload, timestamp, signature, now) ==
    IF timestamp = Nil \/ signature = Nil THEN "missing"
    ELSE IF ~isTimestampFresh(timestamp, now) THEN "stale"
    ELSE IF ~isSignatureValid(signingKey, payload, timestamp, signature) THEN "mismatch"
    ELSE "valid"

VARIABLES
    auNow,     \* Date.now()
    auSession, \* the session S
    auLast     \* the last request answered: what it was and what came of it

auVars == <<auNow, auSession, auLast>>

(* isDefaultConnection is a parameter of createSession; both values are taken
   so that session-extend is followed to its end. *)
AUInit ==
    /\ auNow = 0
    /\ \E d \in BOOLEAN :
           auSession = [live |-> TRUE, isDefaultConnection |-> d, allowDestructive |-> FALSE]
    /\ auLast = Nil

AuBodies == {"toolarge", "invalid", "incomplete", "other", "named"}

(* The request misses a header, carries a timestamp further than the skew
   from the server clock, or a signature whose bytes are not the tag of its
   timestamp and payload under the key of S. *)
AuUnsigned(timestamp, signature) ==
    \/ timestamp = Nil
    \/ signature = Nil
    \/ ~isTimestampFresh(timestamp, auNow)
    \/ ~isSignatureValid("K", "body", timestamp, signature)

AuKnown(body) == body = "named" /\ auSession.live

(* The checks that precede getSession in a POST route: parseJsonBody (413,
   400), the required fields (400), then the session lookup; 0 when all pass. *)
AuBodyStatus(body, unknownStatus) ==
    CASE body = "toolarge" -> 413
      [] body = "invalid" -> 400
      [] body = "incomplete" -> 400
      [] ~AuKnown(body) -> unknownStatus
      [] OTHER -> 0

(* The response leaves and the session is as the handler left it. reached:
   getSession found the session (and refreshed its lastActivity) and the
   signature check was made. changed: the session record differs. *)
AuAnswer(endpoint, timestamp, signature, status, reached, verdict, effect, session) ==
    /\ auSession' = session
    /\ auLast' = [endpoint |-> endpoint, status |-> status, reached |-> reached,
                  verdict |-> verdict, effect |-> effect,
                  unsigned |-> AuUnsigned(timestamp, signature),
                  form |-> IF signature = Nil THEN "none" ELSE signature.form,
                  changed |-> session # auSession]
    /\ UNCHANGED auNow

(* A route from its first check to its response: early is the status of the
   check that stops the request before the signature check (0: none does);
   done is what the route does once the signature is valid. *)
AuRoute(endpoint, body, timestamp, signature, early, done) ==
    LET verdict == validateRequestSignature("K", "body", timestamp, signature, auNow)
    IN IF early # 0
       THEN AuAnswer(endpoint, timestamp, signature, early, FALSE, "unchecked", "none",
                     auSession)
       ELSE IF verdict # "valid"
       THEN AuAnswer(endpoint, timestamp, signature, 401, TRUE, verdict, "none", auSession)
       ELSE AuAnswer(endpoint, timestamp, signature, done.status, TRUE, verdict,
                     done.effect, done.session)

AuDone(status, effect, session) ==
    [status |-> status, effect |-> effect, session |-> session]

disconnectRoute(body, timestamp, signature) ==
    AuRoute("disconnect", body, timestamp, signature, AuBodyStatus(body, 401),
            AuDone(200, "closeSession", [auSession EXCEPT !.live = FALSE]))

keepaliveRoute(body, timestamp, signature) ==
    AuRoute("keepalive", body, timestamp, signature, AuBodyStatus(body, 404),
            AuDone(200, "none", auSession))

sessionExtendRoute(code, body, timestamp, signature) ==
    AuRoute("session-extend", body, timestamp, signature,
            IF code = "unset" THEN 404
            ELSE IF code = "wrong" \/ AuBodyStatus(body, 401) # 0 THEN 401
            ELSE 0,
            IF auSession.isDefaultConnection
            THEN AuDone(200, "setSessionAllowDestructive",
                        [auSession EXCEPT !.allowDestructive = TRUE])
            ELSE AuDone(401, "none", auSession))

executeRoute(limited, runs, body, timestamp, signature) ==
    AuRoute("query/execute", body, timestamp, signature,
            IF limited THEN 429 ELSE AuBodyStatus(body, 401),
            IF runs THEN AuDone(200, "executeQuery", auSession)
            ELSE AuDone(400, "none", auSession))

exportRoute(runs, body, timestamp, signature) ==
    AuRoute("query/export", body, timestamp, signature, AuBodyStatus(body, 401),
            IF runs THEN AuDone(200, "executeQuery", auSession)
            ELSE AuDone(400, "none", auSession))

transactionRoute(action, body, timestamp, signature) ==
    AuRoute("transaction", body, timestamp, signature, AuBodyStatus(body, 401),
            IF action \in {"begin", "commit", "rollback"}
            THEN AuDone(200, action, auSession)
            ELSE AuDone(400, "none", auSession))

(* GET schema/databases, schema/tables, schema/columns: query parameters, no
   body to parse. *)
schemaRoute(route, body, timestamp, signature) ==
    /\ body \in {"incomplete", "other", "named"}
    /\ AuRoute(route, body, timestamp, signature, AuBodyStatus(body, 401),
               AuDone(200, "schema", auSession))

AuTick ==
    /\ auNow < AuMaxTime
    /\ auNow' = auNow + 1
    /\ UNCHANGED <<auSession, auLast>>

(* The headers a request can carry. *)
AuHeaders ==
    {[timestamp |-> t, signature |-> IF k = "none" THEN Nil ELSE AuSignature(k, "body", t)] :
        t \in AuTimestamps \cup {Nil}, k \in AuSignatureKinds \cup {"none"}}

AuDisconnect ==
    \E b \in AuBodies, h \in AuHeaders : disconnectRoute(b, h.timestamp, h.signature)

AuKeepalive ==
    \E b \in AuBodies, h \in AuHeaders : keepaliveRoute(b, h.timestamp, h.signature)

(* A request stopped before its body is read is taken with one body, and what
   a route does after the signature check varies only for a body that names S. *)
AuSessionExtend ==
    \E c \in {"unset", "wrong", "right"} :
        \E b \in IF c = "right" THEN AuBodies ELSE {"named"}, h \in AuHeaders :
            sessionExtendRoute(c, b, h.timestamp, h.signature)

AuExecute ==
    \E limited \in BOOLEAN, b \in AuBodies :
        \E runs \in IF ~limited /\ b = "named" THEN BOOLEAN ELSE {TRUE}, h \in AuHeaders :
            /\ limited => b = "named"
            /\ executeRoute(limited, runs, b, h.timestamp, h.signature)

AuExport ==
    \E b \in AuBodies :
        \E runs \in IF b = "named" THEN BOOLEAN ELSE {TRUE}, h \in AuHeaders :
            exportRoute(runs, b, h.timestamp, h.signature)

AuTransaction ==
    \E b \in AuBodies :
        \E a \in IF b = "named" THEN {"begin", "commit", "rollback", "other"} ELSE {"begin"},
           h \in AuHeaders :
            transactionRoute(a, b, h.timestamp, h.signature)

AuSchema ==
    \E r \in {"schema/databases", "schema/tables", "schema/columns"}, b \in AuBodies,
       h \in AuHeaders : schemaRoute(r, b, h.timestamp, h.signature)

(***************************************************************************)
(* The gateway: sessions created by the connect endpoint, the flag set by  *)
(* session-extend, and the statements that /query/execute, /query/export   *)
(* and /schema/tables hand to the adapter of a session.  The requests of   *)
(* this part carry a valid signature and pass the rate limiter; both are   *)
(* modelled above.                                                         *)
(***************************************************************************)
GwMaxSessions == 2

GwIds == 1..GwMaxSessions

GwTypes == {"postgresql", "mysql", "mongodb"}

GwUsers == {"a", "b"}

(* A connection URL: the server it names and the database in its path. *)
GwUrl(base) == [base |-> base, path |-> "main"]

(* loadDefaultDatabases: one configured URL per database type. *)
loadDefaultDatabases == [t \in GwTypes |-> GwUrl("default")]

(* u_<first 32 hex digits of sha256(userId)>: a name per user. *)
userDatabaseOf(userId) == IF userId = "a" THEN "u_a" ELSE "u_b"

(* String.prototype.toLowerCase on the database names used here. *)
toLowerCase(name) == IF name = "U_B" THEN "u_b" ELSE name

VARIABLES gwSessions, gwNextId, gwDatabases, gwLast

gwVars == <<gwSessions, gwNextId, gwDatabases, gwLast>>

GWInit ==
    /\ gwSessions = [s \in GwIds |-> Nil]
    /\ gwNextId = 1
    /\ gwDatabases = {}
    /\ gwLast = Nil

(* What the last request was and what became of it: the answer's status,
   whether the adapter answered with its synthetic row, whether a statement
   went to the server and the database the server resolved it against. *)
GwAnswer(endpoint, sid, stmt, database, status, result) ==
    gwLast' = [endpoint |-> endpoint, sid |-> sid, kind |-> stmt.kind, ref |-> stmt.ref,
               database |-> database, status |-> status, simulated |-> result.simulated,
               sent |-> result.sent, touched |-> result.touched]

GwNoStatement == [kind |-> "none", ref |-> "none", parses |-> TRUE]

GwNoResult == [simulated |-> FALSE, sent |-> FALSE, touched |-> "none", error |-> FALSE]

(* adapter.connect: the adapter remembers whether its URL is, character for
   character, the configured default of its type. *)
connect(type, connectionUrl) ==
    [url |-> connectionUrl, isDefaultConfig |-> loadDefaultDatabases[type] = connectionUrl]

(* ConnectionManager.createSession.  provisioned tells whether creating the
   user database and connecting to it succeeded; when it did not, the catch
   block connects to the URL as given and forgets the user database. *)
createSession(type, connectionUrl, userId, isIsolated, isDefaultConnection, provisioned) ==
    LET wanted == isIsolated /\ userId # NoUser
        userUrl == IF type = "mongodb" THEN connectionUrl
                   ELSE [connectionUrl EXCEPT !.path = userDatabaseOf(userId)]
        ok == wanted /\ provisioned
        session == [type |-> type, userId |-> userId, isIsolated |-> isIsolated,
                    isDefaultConnection |-> isDefaultConnection, allowDestructive |-> FALSE,
                    userDatabase |-> IF ok THEN userDatabaseOf(userId) ELSE "none",
                    adapter |-> connect(type, IF ok THEN userUrl ELSE connectionUrl)]
        previous == {s \in GwIds : /\ userId # NoUser
                                   /\ gwSessions[s] # Nil
                                   /\ gwSessions[s].userId = userId}
    IN /\ gwSessions' = [s \in GwIds |-> IF s = gwNextId THEN session
                                         ELSE IF s \in previous THEN Nil
                                         ELSE gwSessions[s]]
       /\ gwNextId' = gwNextId + 1
       /\ gwDatabases' = IF ok /\ type # "mongodb"
                         THEN gwDatabases \cup {<<type, connectionUrl.base, userDatabaseOf(userId)>>}
                         ELSE gwDatabases

(* POST /connections/connect.  isIsolated is the request's field: "absent",
   "true" or "false". *)
GwConnectRoute(type, connectionUrl, userId, isIsolated, provisioned) ==
    /\ gwNextId <= GwMaxSessions
    /\ LET matchesDefault == loadDefaultDatabases[type] = connectionUrl
           effectiveUserId == IF type = "mongodb" THEN NoUser ELSE userId
           effectiveIsIsolated == IF type = "mongodb" THEN FALSE
                                  ELSE IF matchesDefault
                                       THEN isIsolated # "false"
                                       ELSE FALSE
       IN IF type # "mongodb" /\ userId = NoUser
          THEN /\ GwAnswer("connect", 0, GwNoStatement, "none", 400, GwNoResult)
               /\ UNCHANGED <<gwSessions, gwNextId, gwDatabases>>
          ELSE /\ createSession(type, connectionUrl, effectiveUserId, effectiveIsIsolated,
                                FALSE, provisioned)
               /\ GwAnswer("connect", gwNextId, GwNoStatement, "none", 200, GwNoResult)

(* createSession called with its fifth argument, as its parameter list
   allows; no route of the repository passes it. *)
GwCreateDefaultConnection(type) ==
    /\ gwNextId <= GwMaxSessions
    /\ createSession(type, loadDefaultDatabases[type], NoUser, FALSE, TRUE, TRUE)
    /\ GwAnswer("createSession", gwNextId, GwNoStatement, "none", 200, GwNoResult)

(* A statement, as far as the code looks at it: what it does, the database
   it names before a table ("none" when the table is unqualified) and
   whether the parser (node-sql-parser, parseMongoQuery) returns for it or
   throws.  delete_where_1_0 is a DELETE FROM whose text contains
   'WHERE 1=0', e.g. DELETE FROM t WHERE 1=0 OR 1=1. *)
GwKinds == {"select", "create_table", "alter_table", "drop_table", "truncate_table",
            "delete", "delete_where_1_0"}

GwRefs == {"none", "u_a", "u_b", "U_B"}

(* The request's database field: "none" when absent. *)
GwDatabaseParams == {"none", "", "u_a", "u_b"}

(* DANGEROUS_SQL_PATTERNS: of the statements above only ALTER TABLE matches
   one; a lone DROP, TRUNCATE or DELETE matches none, the patterns for
   those start with a semicolon. *)
containsDangerousSql(stmt) == stmt.kind = "alter_table"

(* sanitizeQuery: the dangerous SQL patterns are tried only when the flag is
   passed; none of the MongoDB patterns matches a statement used here. *)
sanitizeQuery(type, stmt, isDefaultConnection) ==
    type = "mongodb" \/ ~(isDefaultConnection /\ containsDangerousSql(stmt))

(* The DDL prefixes validateQuery accepts when the parser throws. *)
isDdl(stmt) == stmt.kind \in {"create_table", "alter_table", "drop_table", "truncate_table"}

validateQuery(type, stmt, isDefaultConnection) ==
    /\ sanitizeQuery(type, stmt, isDefaultConnection)
    /\ IF type = "mongodb" THEN stmt.parses ELSE stmt.parses \/ isDdl(stmt)

(* extractSqlDatabases: the db, schema and database strings of the syntax
   tree, and nothing when the parser throws. *)
extractSqlDatabases(stmt) == IF stmt.parses /\ stmt.ref # "none" THEN {stmt.ref} ELSE {}

(* isDestructiveQuery of the SQL adapters. *)
isDestructiveQuery(stmt) == stmt.kind \in {"drop_table", "truncate_table", "delete"}

(* The databases of the server an adapter is connected to: the one of the
   URL and the user databases created there. *)
GwServerHas(type, adapter, name) ==
    name = "main" \/ <<type, adapter.url.base, name>> \in gwDatabases

GwSimulated == [simulated |-> TRUE, sent |-> FALSE, touched |-> "none", error |-> FALSE]

GwSent(name) == [simulated |-> FALSE, sent |-> TRUE, touched |-> name, error |-> FALSE]

GwFailed == [simulated |-> FALSE, sent |-> TRUE, touched |-> "none", error |-> TRUE]

(* PostgresAdapter.executeQuery.  The database argument becomes the
   search_path and a qualified name is a schema: both are inside the
   database of the connection. *)
PostgresExecuteQuery(adapter, stmt, database, options) ==
    IF adapter.isDefaultConfig /\ ~options.allowDestructive /\ isDestructiveQuery(stmt)
    THEN GwSimulated
    ELSE GwSent(adapter.url.path)

(* MySQLAdapter.executeQuery.  USE selects the database argument, a
   qualified name overrides it, and the server refuses a database it does
   not have. *)
MySQLExecuteQuery(adapter, stmt, database, options) ==
    IF adapter.isDefaultConfig /\ isDestructiveQuery(stmt)
    THEN GwSimulated
    ELSE LET used == IF database \in {"none", ""} THEN adapter.url.path ELSE database
             name == IF stmt.ref # "none" THEN stmt.ref ELSE used
         IN IF GwServerHas("mysql", adapter, used) /\ GwServerHas("mysql", adapter, name)
            THEN GwSent(name)
            ELSE GwFailed

(* MongoAdapter.executeQuery: drop, deleteMany and the like are simulated on
   the default configuration. *)
MongoExecuteQuery(adapter, stmt, database, options) ==
    IF ~stmt.parses THEN [GwFailed EXCEPT !.sent = FALSE]
    ELSE IF /\ adapter.isDefaultConfig /\ ~options.allowDestructive
            /\ stmt.kind \in {"drop_table", "delete"}
         THEN GwSimulated
         ELSE GwSent(IF database \in {"none", ""} THEN adapter.url.path ELSE database)

GwExecuteQuery(session, stmt, database, options) ==
    IF session.type = "postgresql"
    THEN PostgresExecuteQuery(session.adapter, stmt, database, options)
    ELSE IF session.type = "mysql"
         THEN MySQLExecuteQuery(session.adapter, stmt, database, options)
         ELSE MongoExecuteQuery(session.adapter, stmt, database, options)

(* The database the execute and export routes pass to the adapter. *)
effectiveDatabase(session, database) ==
    IF database # "" THEN database
    ELSE IF session.type # "mongodb" /\ session.isIsolated /\ session.userDatabase # "none"
         THEN session.userDatabase
         ELSE database

(* QueryOptions as the routes build them: limit, offset and explain, and for
   SQL sessions userId, isIsolated and userDatabase; allowDestructive is not
   among them and reads as undefined. *)
GwQueryOptions(session) == [allowDestructive |-> FALSE]

(* POST /query/execute with a query of one statement. *)
GwExecuteRoute(sid, stmt, database) ==
    /\ gwSessions[sid] # Nil
    /\ LET session == gwSessions[sid]
           valid == validateQuery(session.type, stmt,
                                  IF session.type = "mongodb" THEN FALSE ELSE session.isIsolated)
           result == GwExecuteQuery(session, stmt, effectiveDatabase(session, database),
                                    GwQueryOptions(session))
       IN IF ~valid
          THEN GwAnswer("query/execute", sid, stmt, database, 400, GwNoResult)
          ELSE GwAnswer("query/execute", sid, stmt, database,
                        IF result.error THEN 400 ELSE 200, result)
    /\ UNCHANGED <<gwSessions, gwNextId, gwDatabases>>

(* POST /query/export with a query of one statement. *)
GwExportRoute(sid, stmt, database) ==
    /\ gwSessions[sid] # Nil
    /\ LET session == gwSessions[sid]
           sql == session.type # "mongodb"
           allowed == {toLowerCase(session.userDatabase)} \cup
                      (IF database \in {"none", ""} THEN {} ELSE {toLowerCase(database)})
           hasForbidden == \E db \in extractSqlDatabases(stmt) : toLowerCase(db) \notin allowed
           result == GwExecuteQuery(session, stmt, effectiveDatabase(session, database),
                                    GwQueryOptions(session))
       IN IF session.isIsolated /\ sql /\ containsDangerousSql(stmt)
          THEN GwAnswer("query/export", sid, stmt, database, 400, GwNoResult)
          ELSE IF ~validateQuery(session.type, stmt, session.isIsolated)
          THEN GwAnswer("query/export", sid, stmt, database, 400, GwNoResult)
          ELSE IF /\ session.isIsolated /\ session.type = "mysql"
                  /\ session.userDatabase # "none" /\ hasForbidden
          THEN GwAnswer("query/export", sid, stmt, database, 403, GwNoResult)
          ELSE GwAnswer("query/export", sid, stmt, database,
                        IF result.error THEN 400 ELSE 200, result)
    /\ UNCHANGED <<gwSessions, gwNextId, gwDatabases>>

(* GET /schema/tables.  MySQL reads information_schema by the name given,
   PostgreSQL reads the schema of that name in the connected database and
   MongoDB lists the collections of the database of that name. *)
GwTablesRoute(sid, database) ==
    /\ gwSessions[sid] # Nil
    /\ LET session == gwSessions[sid]
           adapter == session.adapter
           result == IF session.type = "postgresql" THEN GwSent(adapter.url.path)
                     ELSE IF session.type = "mongodb" THEN GwSent(database)
                     ELSE IF GwServerHas("mysql", adapter, database) THEN GwSent(database)
                     ELSE GwSent("none")
           tables == [GwNoStatement EXCEPT !.kind = "select"]
       IN IF database \in {"none", ""}
          THEN GwAnswer("schema/tables", sid, tables, database, 400, GwNoResult)
          ELSE GwAnswer("schema/tables", sid, tables, database, 200, result)
    /\ UNCHANGED <<gwSessions, gwNextId, gwDatabases>>

(* The mutation of GwSessionExtendRoute that sets the flag on any session. *)
GwSessionExtendRouteAnySession(sid, code) ==
    /\ LET updated == code = "right" /\ gwSessions[sid] # Nil
       IN /\ gwSessions' = IF updated
                           THEN [gwSessions EXCEPT ![sid].allowDestructive = TRUE]
                           ELSE gwSessions
          /\ GwAnswer("session-extend", sid, GwNoStatement, "none",
                      IF updated THEN 200 ELSE 401, GwNoResult)
    /\ UNCHANGED <<gwNextId, gwDatabases>>

(* POST /connections/session-extend with the code of the environment set:
   the request's code right or wrong, the session known or not.
   setSessionAllowDestructive returns false for a session that is missing or
   is not a default connection. *)
GwSessionExtendRoute(sid, code) ==
    /\ LET updated == /\ code = "right"
                      /\ gwSessions[sid] # Nil
                      /\ gwSessions[sid].isDefaultConnection
       IN /\ gwSessions' = IF updated
                           THEN [gwSessions EXCEPT ![sid].allowDestructive = TRUE]
                           ELSE gwSessions
          /\ GwAnswer("session-extend", sid, GwNoStatement, "none",
                      IF updated THEN 200 ELSE 401, GwNoResult)
    /\ UNCHANGED <<gwNextId, gwDatabases>>

(* Connections of any kind, and the destructive statements: the kinds a
   session of the given type can be sent, the table unqualified or in the
   database of the default URL, no database chosen by the request. *)
GwStatements(type) ==
    IF type = "mongodb"
    THEN [kind : {"select", "drop_table", "delete"}, ref : {"none"}, parses : BOOLEAN]
    ELSE [kind : GwKinds, ref : {"none", "main"}, parses : BOOLEAN]

GwConnect ==
    \E type \in GwTypes, base \in {"default", "custom"}, userId \in GwUsers \cup {NoUser},
       isIsolated \in {"absent", "true", "false"}, provisioned \in BOOLEAN :
        GwConnectRoute(type, GwUrl(base), userId, isIsolated, provisioned)

GwCreate == \E type \in GwTypes : GwCreateDefaultConnection(type)

GwSessionExtend == \E sid \in GwIds, code \in {"right", "wrong"} : GwSessionExtendRoute(sid, code)

GwExecute ==
    \E sid \in GwIds, type \in GwTypes :
        /\ gwSessions[sid] # Nil
        /\ gwSessions[sid].type = type
        /\ \E stmt \in GwStatements(type) : GwExecuteRoute(sid, stmt, "none")

(* Tenants of the default SQL servers, and statements that name a database:
   one the parser must parse, one it need not, one the patterns refuse. *)
GwTenantStatements ==
    [kind : {"select", "drop_table", "alter_table"}, ref : GwRefs, parses : BOOLEAN]

GwConnectTenant ==
    \E type \in {"postgresql", "mysql"}, userId \in GwUsers \cup {NoUser},
       isIsolated \in {"absent", "true", "false"}, provisioned \in BOOLEAN :
        GwConnectRoute(type, loadDefaultDatabases[type], userId, isIsolated, provisioned)

GwExecuteIn ==
    \E sid \in GwIds, stmt \in GwTenantStatements, database \in GwDatabaseParams :
        GwExecuteRoute(sid, stmt, database)

GwExportIn ==
    \E sid \in GwIds, stmt \in GwTenantStatements, database \in GwDatabaseParams :
        GwExportRoute(sid, stmt, database)

GwTables == \E sid \in GwIds, database \in GwDatabaseParams : GwTablesRoute(sid, database)

(***************************************************************************)
(* The SQL pagination rewriter and the row limits of the adapters.  A      *)
(* query is a sequence of tokens: a blank, a semicolon or a word; two      *)
(* words are never adjacent, so that a token is a whole word of the text.  *)
(***************************************************************************)
PgMaxLen == 4

PgMaxRows == 3

DEFAULT_QUERY_LIMIT == 2

PgWords == {"select", "update", "limit", "LIMIT", "fetch", "first", "offset"}

PgTokens == PgWords \cup {" ", ";"}

PgIsWord(t) == t \notin {" ", ";"}

PgQueries ==
    {q \in UNION {[1..n -> PgTokens] : n \in 0..PgMaxLen} :
        \A i \in 1..(Len(q) - 1) : ~(PgIsWord(q[i]) /\ PgIsWord(q[i + 1]))}

(* The i flag of the regular expressions. *)
PgLower(t) == IF t = "LIMIT" THEN "limit" ELSE IF t = "OFFSET" THEN "offset" ELSE t

(* The decimal text of a number. *)
PgNumber(n) == <<"0", "1", "2", "3", "4", "5", "6", "7", "8", "9">>[n + 1]

RECURSIVE PgTrimStart(_)
PgTrimStart(q) == IF q # <<>> /\ Head(q) = " " THEN PgTrimStart(Tail(q)) ELSE q

RECURSIVE PgTrimEnd(_)
PgTrimEnd(q) ==
    IF q # <<>> /\ q[Len(q)] = " " THEN PgTrimEnd(SubSeq(q, 1, Len(q) - 1)) ELSE q

(* String.prototype.trim *)
PgTrim(q) == PgTrimEnd(PgTrimStart(q))

PgIncludes(q, t) == \E i \in 1..Len(q) : q[i] = t

LIMIT_REGEX(q) == \E i \in 1..Len(q) : PgLower(q[i]) = "limit"

OFFSET_REGEX(q) == \E i \in 1..Len(q) : PgLower(q[i]) = "offset"

FETCH_REGEX(q) ==
    \E i \in 1..Len(q), j \in 1..Len(q) :
        /\ i + 1 < j
        /\ PgLower(q[i]) = "fetch"
        /\ PgLower(q[j]) = "first"
        /\ \A k \in (i + 1)..(j - 1) : q[k] = " "

SELECT_LIKE_REGEX(q) ==
    LET rest == PgTrimStart(q)
    IN rest # <<>> /\ PgLower(rest[1]) \in {"select", "with", "show", "describe", "explain"}

stripTrailingSemicolon(q) ==
    LET body == PgTrimEnd(q)
        hadSemicolon == body # <<>> /\ body[Len(body)] = ";"
    IN IF hadSemicolon
       THEN [query |-> SubSeq(body, 1, Len(body) - 1), hadSemicolon |-> TRUE]
       ELSE [query |-> q, hadSemicolon |-> FALSE]

hasMultipleStatements(q) ==
    LET trimmed == PgTrim(q)
    IN PgIncludes(trimmed, ";") /\ PgIncludes(stripTrailingSemicolon(trimmed).query, ";")

(* The mutation of applySqlPagination that does not look for LIMIT. *)
applySqlPaginationAlways(q, options) ==
    IF PgTrim(q) = <<>> THEN q
    ELSE IF ~SELECT_LIKE_REGEX(q) THEN q
    ELSE IF hasMultipleStatements(q) THEN q
    ELSE LET stripped == stripTrailingSemicolon(PgTrim(q))
             rowLimit == IF options.limit = <<>> THEN DEFAULT_QUERY_LIMIT ELSE options.limit[1]
             paginated == stripped.query \o <<" ", "LIMIT", " ", PgNumber(rowLimit)>>
         IN IF stripped.hadSemicolon THEN paginated \o <<";">> ELSE paginated

(* options.limit and options.offset are <<>> when undefined and <<n>> when
   the number n. *)
applySqlPagination(q, options) ==
    IF PgTrim(q) = <<>> THEN q
    ELSE IF ~SELECT_LIKE_REGEX(q) THEN q
    ELSE IF hasMultipleStatements(q) THEN q
    ELSE IF LIMIT_REGEX(q) \/ FETCH_REGEX(q) THEN q
    ELSE LET stripped == stripTrailingSemicolon(PgTrim(q))
             rowLimit == IF options.limit = <<>> THEN DEFAULT_QUERY_LIMIT ELSE options.limit[1]
             offset == options.offset
             paginated == stripped.query \o <<" ", "LIMIT", " ", PgNumber(rowLimit)>>
             withOffset == IF offset # <<>> /\ offset[1] > 0 /\ ~OFFSET_REGEX(q)
                           THEN paginated \o <<" ", "OFFSET", " ", PgNumber(offset[1])>>
                           ELSE paginated
         IN IF stripped.hadSemicolon THEN withOffset \o <<";">> ELSE withOffset

VARIABLES pgCall, pgLast

pgVars == <<pgCall, pgLast>>

Min2(a, b) == IF a <= b THEN a ELSE b

PgIsNumber(t) == t \in {"0", "1", "2", "3", "4", "5", "6", "7", "8", "9"}

PgValue(t) == CHOOSE n \in 0..9 : PgNumber(n) = t

(* The rows the server returns for a statement that matches PgMaxRows rows:
   all of them unless the text carries LIMIT n. *)
PgServerRows(text) ==
    IF \E i \in 1..(Len(text) - 2) :
           PgLower(text[i]) = "limit" /\ text[i + 1] = " " /\ PgIsNumber(text[i + 2])
    THEN LET i == CHOOSE k \in 1..(Len(text) - 2) :
                      PgLower(text[k]) = "limit" /\ text[k + 1] = " " /\ PgIsNumber(text[k + 2])
         IN Min2(PgValue(text[i + 2]), PgMaxRows)
    ELSE PgMaxRows

(* The limits a request can carry: none, or a number. *)
PgLimits == {<<>>, <<1>>}

PgOffsets == {<<>>, <<0>>, <<1>>}

(* A call of an adapter's executeQuery by a route.  /query/execute passes
   the numbers of the body as limit and offset, /query/export passes
   { limit: undefined }.  chain is the argument of a limit() chained to a
   find, <<>> without one. *)
PgCalls ==
    [call : {"query/execute"}, type : {"sql"}, query : PgQueries,
     options : [limit : PgLimits, offset : PgOffsets], chain : {<<>>}]
    \cup [call : {"query/export"}, type : {"sql"}, query : PgQueries,
          options : [limit : {<<>>}, offset : {<<>>}], chain : {<<>>}]
    \cup [call : {"query/execute"}, type : {"mongodb"}, query : {<<>>},
          options : [limit : PgLimits, offset : {<<>>}], chain : PgLimits]
    \cup [call : {"query/export"}, type : {"mongodb"}, query : {<<>>},
          options : [limit : {<<>>}, offset : {<<>>}], chain : PgLimits]

(* One call, an export of the empty statement, where the calls are not what
   is looked at. *)
PGInit ==
    /\ pgCall = [call |-> "query/export", type |-> "sql", query |-> <<>>,
                 options |-> [limit |-> <<>>, offset |-> <<>>], chain |-> <<>>]
    /\ pgLast = Nil

(* Any call. *)
PGInitCalls ==
    /\ pgCall \in PgCalls
    /\ pgLast = Nil

(* The SQL adapters' executeQuery without explain: the statement goes to the
   server as applySqlPagination returns it. *)
PgSqlExecuteQuery(call) ==
    /\ pgLast = Nil
    /\ pgCall.call = call
    /\ pgCall.type = "sql"
    /\ LET finalQuery == applySqlPagination(pgCall.query, pgCall.options)
       IN pgLast' = [out |-> finalQuery, reapplied |-> FALSE, again |-> <<>>,
                     returned |-> PgServerRows(finalQuery)]
    /\ UNCHANGED pgCall

(* MongoAdapter, case 'find', of a collection with PgMaxRows matching
   documents. *)
PgMongoFind ==
    /\ pgLast = Nil
    /\ pgCall.type = "mongodb"
    /\ LET applied == IF pgCall.chain # <<>> THEN pgCall.chain[1]
                      ELSE IF pgCall.options.limit = <<>> THEN DEFAULT_QUERY_LIMIT
                      ELSE pgCall.options.limit[1]
       IN pgLast' = [out |-> <<>>, reapplied |-> FALSE, again |-> <<>>,
                     returned |-> Min2(applied, PgMaxRows)]
    /\ UNCHANGED pgCall

PgExecute == PgSqlExecuteQuery("query/execute")

PgExport == PgSqlExecuteQuery("query/export")

(* The rewriter applied to what it returned. *)
PgReapply ==
    /\ pgLast # Nil
    /\ pgCall.type = "sql"
    /\ ~pgLast.reapplied
    /\ pgLast' = [pgLast EXCEPT !.reapplied = TRUE,
                                !.again = applySqlPagination(pgLast.out, pgCall.options)]
    /\ UNCHANGED pgCall

(***************************************************************************)
(* splitSqlStatements.  A query is a sequence of characters.               *)
(***************************************************************************)
SpMaxLen == 5

SpChars == {"a", " ", ";", "'", "\"", "\\", "$", "-"}

SpQueries == UNION {[1..n -> SpChars] : n \in 0..SpMaxLen}

(* query.startsWith(tag, i) *)
SpStartsWith(query, tag, i) ==
    i + Len(tag) - 1 <= Len(query) /\ SubSeq(query, i, i + Len(tag) - 1) = tag

(* query.indexOf('$', from): 0 when there is none. *)
SpIndexOfDollar(query, from) ==
    IF \E j \in from..Len(query) : query[j] = "$"
    THEN CHOOSE j \in from..Len(query) :
             query[j] = "$" /\ \A k \in from..(j - 1) : query[k] # "$"
    ELSE 0

(* The test of line 55: the pattern as written asks for a backslash and the
   end of the input before the name, which no tag satisfies; what is left
   is the comparison with '$$'. *)
SpIsDollarTag(tag) == tag = <<"$", "$">>

(* The comparisons of lines 25 and 33: prev, one character, against the
   literal of two backslashes. *)
SpPrevIsEscape(prev) == prev = <<"\\", "\\">>

(* statements.push(current.trim()) when the trimmed text is not empty. *)
SpPush(statements, current) ==
    IF PgTrim(current) # <<>> THEN Append(statements, PgTrim(current)) ELSE statements

(* One turn of the loop at index i: the state after it and the index it
   leaves in i. *)
SpStep(query, i, st) ==
    LET char == query[i]
        prev == IF i > 1 THEN <<query[i - 1]>> ELSE <<>>
        nextDollar == SpIndexOfDollar(query, i + 1)
        tag == IF nextDollar # 0 THEN SubSeq(query, i, nextDollar) ELSE <<>>
    IN IF st.dollarTag # <<>>
       THEN IF SpStartsWith(query, st.dollarTag, i)
            THEN [i |-> i + Len(st.dollarTag) - 1,
                  st |-> [st EXCEPT !.current = @ \o st.dollarTag, !.dollarTag = <<>>]]
            ELSE [i |-> i, st |-> [st EXCEPT !.current = Append(@, char)]]
       ELSE IF st.inSingle
       THEN [i |-> i,
             st |-> [st EXCEPT !.current = Append(@, char),
                               !.inSingle = ~(char = "'" /\ ~SpPrevIsEscape(prev))]]
       ELSE IF st.inDouble
       THEN [i |-> i,
             st |-> [st EXCEPT !.current = Append(@, char),
                               !.inDouble = ~(char = "\"" /\ ~SpPrevIsEscape(prev))]]
       ELSE IF char = "'"
       THEN [i |-> i, st |-> [st EXCEPT !.current = Append(@, char), !.inSingle = TRUE]]
       ELSE IF char = "\""
       THEN [i |-> i, st |-> [st EXCEPT !.current = Append(@, char), !.inDouble = TRUE]]
       ELSE IF char = "$" /\ nextDollar # 0 /\ SpIsDollarTag(tag)
       THEN [i |-> nextDollar,
             st |-> [st EXCEPT !.current = @ \o tag, !.dollarTag = tag]]
       ELSE IF char = ";"
       THEN [i |-> i,
             st |-> [st EXCEPT !.statements = SpPush(@, st.current), !.current = <<>>]]
       ELSE [i |-> i, st |-> [st EXCEPT !.current = Append(@, char)]]

RECURSIVE SpLoop(_, _, _)
SpLoop(query, i, st) ==
    IF i > Len(query) THEN SpPush(st.statements, st.current)
    ELSE LET turn == SpStep(query, i, st) IN SpLoop(query, turn.i + 1, turn.st)

splitSqlStatements(query) ==
    SpLoop(query, 1, [statements |-> <<>>, current |-> <<>>, inSingle |-> FALSE,
                      inDouble |-> FALSE, dollarTag |-> <<>>])

VARIABLES spQuery, spOut

spVars == <<spQuery, spOut>>

SPInit == spQuery = <<>> /\ spOut = Nil

SPInitQueries == spQuery \in SpQueries /\ spOut = Nil

SpSplit ==
    /\ spOut = Nil
    /\ spOut' = [statements |-> splitSqlStatements(spQuery)]
    /\ UNCHANGED spQuery

(***************************************************************************)
(* The Mongo shell parser and the find / findOne cases of the adapter.  A  *)
(* query is a sequence of tokens; "{}" and "{p}" stand for an empty and a  *)
(* non-empty object literal that the rewriting of parseMongoArgs (lines    *)
(* 76-92) has already turned into JSON.                                    *)
(***************************************************************************)
MgMaxArgs == 2

MgMaxItems == 2

MgAtoms == {"{}", "{p}", "1", "null"}

(* The value JSON.parse makes of a literal. *)
MgAtom(token) ==
    [kind |-> IF token \in {"{}", "{p}"} THEN "object" ELSE IF token = "1" THEN "number" ELSE "null",
     keys |-> IF token = "{p}" THEN 1 ELSE 0,
     items |-> <<>>]

MgArray(items) == [kind |-> "array", keys |-> 0, items |-> items]

MgScalars == {MgAtom(t) : t \in MgAtoms}

(* The arguments a caller can write: a literal, or an array of literals. *)
MgWritable ==
    MgScalars \cup {MgArray(items) : items \in UNION {[1..n -> MgScalars] : n \in 0..MgMaxItems}}

MgWrittenArgs == UNION {[1..n -> MgWritable] : n \in 0..MgMaxArgs}

MgTokenOf(value) ==
    IF value.kind = "number" THEN "1"
    ELSE IF value.kind = "null" THEN "null"
    ELSE IF value.keys > 0 THEN "{p}" ELSE "{}"

RECURSIVE MgJoin(_)
MgJoin(pieces) ==
    IF pieces = <<>> THEN <<>>
    ELSE IF Len(pieces) = 1 THEN pieces[1]
    ELSE pieces[1] \o <<",">> \o MgJoin(Tail(pieces))

(* The text of one written argument and of an argument list. *)
MgText(value) ==
    IF value.kind = "array"
    THEN <<"[">> \o MgJoin([k \in 1..Len(value.items) |-> <<MgTokenOf(value.items[k])>>]) \o <<"]">>
    ELSE <<MgTokenOf(value)>>

MgArgsText(written) == MgJoin([k \in 1..Len(written) |-> MgText(written[k])])

MgFail == [ok |-> FALSE, value |-> MgAtom("null"), next |-> 0]

(* JSON.parse, on the tokens from position i. *)
RECURSIVE MgJsonValue(_, _), MgJsonItems(_, _, _)
MgJsonValue(tokens, i) ==
    IF i > Len(tokens) THEN MgFail
    ELSE IF tokens[i] \in MgAtoms THEN [ok |-> TRUE, value |-> MgAtom(tokens[i]), next |-> i + 1]
    ELSE IF tokens[i] = "["
    THEN IF i + 1 <= Len(tokens) /\ tokens[i + 1] = "]"
         THEN [ok |-> TRUE, value |-> MgArray(<<>>), next |-> i + 2]
         ELSE MgJsonItems(tokens, i + 1, <<>>)
    ELSE MgFail

MgJsonItems(tokens, i, acc) ==
    LET item == MgJsonValue(tokens, i)
    IN IF ~item.ok \/ item.next > Len(tokens) THEN MgFail
       ELSE IF tokens[item.next] = ","
       THEN MgJsonItems(tokens, item.next + 1, Append(acc, item.value))
       ELSE IF tokens[item.next] = "]"
       THEN [ok |-> TRUE, value |-> MgArray(Append(acc, item.value)), next |-> item.next + 1]
       ELSE MgFail

JSONparse(tokens) ==
    LET parsed == MgJsonValue(tokens, 1)
    IN IF parsed.ok /\ parsed.next = Len(tokens) + 1 THEN parsed ELSE MgFail

(* The loop of lines 108-140: the pieces between commas at depth 0, each
   handed to JSON.parse; ok is FALSE when one of them throws. *)
RECURSIVE MgSplitLoop(_, _, _, _, _)
MgSplitLoop(tokens, i, depth, currentArg, args) ==
    LET push(list) == IF currentArg = <<>> THEN [ok |-> TRUE, args |-> list]
                      ELSE IF JSONparse(currentArg).ok
                           THEN [ok |-> TRUE, args |-> Append(list, JSONparse(currentArg).value)]
                           ELSE [ok |-> FALSE, args |-> <<>>]
    IN IF i > Len(tokens) THEN push(args)
       ELSE LET char == tokens[i]
                depth2 == IF char = "[" THEN depth + 1 ELSE IF char = "]" THEN depth - 1 ELSE depth
            IN IF char = "," /\ depth2 = 0
               THEN IF push(args).ok
                    THEN MgSplitLoop(tokens, i + 1, depth2, <<>>, push(args).args)
                    ELSE push(args)
               ELSE MgSplitLoop(tokens, i + 1, depth2, Append(currentArg, char), args)

MgThrown == [ok |-> FALSE, args |-> <<>>]

(* parseMongoArgs: JSON.parse of the text; failing that, of the text inside
   brackets (or as it is when it begins with one); failing that, the loop. *)
parseMongoArgs(argsStr) ==
    IF argsStr = <<>> THEN [ok |-> TRUE, args |-> <<>>]
    ELSE LET whole == JSONparse(argsStr)
             arrayStr == IF argsStr[1] = "[" THEN argsStr ELSE <<"[">> \o argsStr \o <<"]">>
             wrapped == JSONparse(arrayStr)
             pieces == MgSplitLoop(argsStr, 1, 0, <<>>, <<>>)
         IN IF whole.ok
            THEN [ok |-> TRUE,
                  args |-> IF whole.value.kind = "array" THEN whole.value.items ELSE <<whole.value>>]
            ELSE IF wrapped.ok THEN [ok |-> TRUE, args |-> wrapped.value.items]
            ELSE IF pieces.ok
            THEN (IF Len(pieces.args) > 0 THEN pieces ELSE MgThrown)
            ELSE IF argsStr = <<"{}">> THEN [ok |-> TRUE, args |-> <<MgAtom("{}")>>]
            ELSE MgThrown

(* splitByTopLevelDots: the segments between dots at depth 0 (lines 19-68;
   the tokens here hold no quote characters). *)
RECURSIVE MgDotsLoop(_, _, _, _, _)
MgDotsLoop(input, i, depth, current, parts) ==
    LET pushed == IF current # <<>> THEN Append(parts, current) ELSE parts
    IN IF i > Len(input) THEN pushed
       ELSE LET char == input[i]
                depth2 == IF char \in {"(", "["} THEN depth + 1
                          ELSE IF char \in {")", "]"} THEN Max2(0, depth - 1)
                          ELSE depth
            IN IF char = "." /\ depth2 = 0
               THEN MgDotsLoop(input, i + 1, depth2, <<>>, pushed)
               ELSE MgDotsLoop(input, i + 1, depth2, Append(current, char), parts)

splitByTopLevelDots(input) == MgDotsLoop(input, 1, 0, <<>>, <<>>)

isCallSegment(segment) == \E k \in 1..Len(segment) : segment[k] = "("

(* parseCallSegment: the name before the first "(" and the arguments up to
   the last ")". *)
parseCallSegment(segment) ==
    LET opens == {k \in 1..Len(segment) : segment[k] = "("}
        closes == {k \in 1..Len(segment) : segment[k] = ")"}
        openIndex == CHOOSE k \in opens : \A j \in opens : k <= j
        closeIndex == CHOOSE k \in closes : \A j \in closes : k >= j
    IN IF opens = {} \/ closes = {} \/ closeIndex < openIndex
       THEN [ok |-> FALSE, name |-> <<>>, args |-> <<>>]
       ELSE LET parsed == parseMongoArgs(SubSeq(segment, openIndex + 1, closeIndex - 1))
            IN [ok |-> parsed.ok, name |-> SubSeq(segment, 1, openIndex - 1),
                args |-> parsed.args]

MgParseError == [ok |-> FALSE, collection |-> <<>>, operation |-> <<>>, args |-> <<>>,
                 chain |-> <<>>, target |-> "none"]

(* parseMongoQuery, for a query that is neither a show / use command nor
   begins with getSiblingDB or admin (lines 202-208 and 219-268). *)
parseMongoQuery(query) ==
    LET segments == splitByTopLevelDots(query)
    IN IF Len(segments) < 2 \/ segments[1] # <<"db">> THEN MgParseError
       ELSE IF isCallSegment(segments[2])
       THEN LET call == parseCallSegment(segments[2])
                chain == [k \in 1..(Len(segments) - 2) |-> parseCallSegment(segments[k + 2])]
            IN IF ~call.ok \/ \E k \in 1..Len(chain) : ~chain[k].ok THEN MgParseError
               ELSE [ok |-> TRUE, collection |-> <<>>, operation |-> call.name,
                     args |-> call.args, chain |-> chain, target |-> "db"]
       ELSE IF Len(segments) < 3 \/ ~isCallSegment(segments[3]) THEN MgParseError
       ELSE LET op == parseCallSegment(segments[3])
                chain == [k \in 1..(Len(segments) - 3) |-> parseCallSegment(segments[k + 3])]
            IN IF ~op.ok \/ \E k \in 1..Len(chain) : ~chain[k].ok THEN MgParseError
               ELSE [ok |-> TRUE, collection |-> segments[2], operation |-> op.name,
                     args |-> op.args, chain |-> chain, target |-> "collection"]

(* asProjectionOption: <<doc>> for { projection: doc }, <<>> for {}. *)
asProjectionOptionAnyObject(args) ==
    IF Len(args) < 2 \/ args[2].kind # "object" THEN <<>>
    ELSE <<args[2]>>

asProjectionOption(args) ==
    IF Len(args) < 2 \/ args[2].kind # "object" THEN <<>>
    ELSE IF args[2].keys > 0 THEN <<args[2]>> ELSE <<>>

(* normalizeMongoDoc: value ?? {}. *)
normalizeMongoDoc(args, k) ==
    IF Len(args) < k \/ args[k].kind = "null" THEN MgAtom("{}") ELSE args[k]

MgOperations == {"find", "findOne"}

MgChains == {<<>>, <<".", "limit", "(", "1", ")">>}

MgQueryText(operation, written, chain) ==
    <<"db", ".", "students", ".", operation, "(">> \o MgArgsText(written) \o <<")">> \o chain

VARIABLES mgCall, mgParsed, mgFind

mgVars == <<mgCall, mgParsed, mgFind>>

MGInit ==
    /\ mgCall = [operation |-> "find", written |-> <<>>, chain |-> <<>>]
    /\ mgParsed = Nil
    /\ mgFind = Nil

MGInitCalls ==
    /\ mgCall \in [operation : MgOperations, written : MgWrittenArgs, chain : MgChains]
    /\ mgParsed = Nil
    /\ mgFind = Nil

(* parseMongoQuery on the text of the call. *)
MgParse ==
    /\ mgParsed = Nil
    /\ mgParsed' = parseMongoQuery(MgQueryText(mgCall.operation, mgCall.written, mgCall.chain))
    /\ UNCHANGED <<mgCall, mgFind>>

(* The find and findone cases of MongoAdapter.executeQuery: what goes to
   collection.find / collection.findOne. *)
MgExecuteFind ==
    /\ mgParsed # Nil /\ mgParsed.ok /\ mgFind = Nil
    /\ mgFind' = [filter |-> normalizeMongoDoc(mgParsed.args, 1),
                  projection |-> asProjectionOption(mgParsed.args)]
    /\ UNCHANGED <<mgCall, mgParsed>>

(***************************************************************************)
(* performCleanup: the daily job that drops the user databases of every    *)
(* configured default server.  Each await of the job is one step; whether  *)
(* a connect, a listing, a DROP or a disconnect fails is chosen freely.    *)
(***************************************************************************)
(* loadDefaultDatabases, with the three URLs configured, in its order. *)
ClConfigs == <<"mongodb", "postgresql", "mysql">>

(* The names each adapter never drops. *)
ClSystem(type) ==
    IF type = "postgresql" THEN {"postgres", "template0", "template1"}
    ELSE IF type = "mysql" THEN {"information_schema", "mysql", "performance_schema", "sys"}
    ELSE {"admin", "local", "config"}

(* What the server lists: one of its own databases and two of users. *)
ClNames(type) ==
    <<(IF type = "postgresql" THEN "postgres" ELSE IF type = "mysql" THEN "mysql" ELSE "admin"),
      "u_a", "u_b">>

VARIABLES clIndex, clPhase, clDropIdx, clThrown, clLog

clVars == <<clIndex, clPhase, clDropIdx, clThrown, clLog>>

CLInit ==
    /\ clIndex = 1
    /\ clPhase = "connect"
    /\ clDropIdx = 0
    /\ clThrown = FALSE
    /\ clLog = [attempted |-> {}, connected |-> {}, disconnected |-> {}, listed |-> {},
                tried |-> {}, dropped |-> {}, failed |-> {}, errors |-> {}]

ClType == ClConfigs[clIndex]

(* The next turn of the for loop over the configured databases. *)
ClContinue ==
    /\ clIndex' = clIndex + 1
    /\ clPhase' = IF clIndex + 1 > Len(ClConfigs) THEN "done" ELSE "connect"
    /\ clDropIdx' = 0
    /\ clThrown' = FALSE

(* new Adapter(); await adapter.connect(url).  A failure is caught by the
   catch of the loop body, which logs it. *)
ClConnect(ok) ==
    /\ clPhase = "connect"
    /\ IF ok
       THEN /\ clLog' = [clLog EXCEPT !.attempted = @ \cup {ClType},
                                      !.connected = @ \cup {ClType}]
            /\ clPhase' = "list"
            /\ UNCHANGED <<clIndex, clDropIdx, clThrown>>
       ELSE /\ clLog' = [clLog EXCEPT !.attempted = @ \cup {ClType},
                                      !.errors = @ \cup {ClType}]
            /\ ClContinue

(* dropAllUserDatabases up to its loop: the listing of the names and the
   client it takes from the pool.  A failure leaves through finally. *)
ClList(ok) ==
    /\ clPhase = "list"
    /\ IF ok
       THEN /\ clLog' = [clLog EXCEPT !.listed = @ \cup {ClType}]
            /\ clPhase' = "drop"
            /\ clDropIdx' = 1
            /\ UNCHANGED <<clIndex, clThrown>>
       ELSE /\ clPhase' = "finally"
            /\ clThrown' = TRUE
            /\ UNCHANGED <<clIndex, clDropIdx, clLog>>

(* One turn of the loop over the names, with the failing DROP leaving the
   loop instead of being caught. *)
ClDropRethrow(ok) ==
    /\ clPhase = "drop"
    /\ LET name == ClNames(ClType)[clDropIdx]
           last == clDropIdx = Len(ClNames(ClType))
       IN IF name \in ClSystem(ClType)
          THEN /\ clDropIdx' = clDropIdx + 1
               /\ clPhase' = IF last THEN "finally" ELSE "drop"
               /\ UNCHANGED <<clIndex, clThrown, clLog>>
          ELSE IF ok
          THEN /\ clLog' = [clLog EXCEPT !.tried = @ \cup {<<ClType, name>>},
                                         !.dropped = @ \cup {<<ClType, name>>}]
               /\ clDropIdx' = clDropIdx + 1
               /\ clPhase' = IF last THEN "finally" ELSE "drop"
               /\ UNCHANGED <<clIndex, clThrown>>
          ELSE /\ clLog' = [clLog EXCEPT !.tried = @ \cup {<<ClType, name>>},
                                         !.failed = @ \cup {<<ClType, name>>}]
               /\ clPhase' = "finally"
               /\ clThrown' = TRUE
               /\ UNCHANGED <<clIndex, clDropIdx>>

(* One turn of the loop over the names: a system name is skipped; the DROP
   of any other is attempted and its failure caught and logged. *)
ClDrop(ok) ==
    /\ clPhase = "drop"
    /\ LET name == ClNames(ClType)[clDropIdx]
           last == clDropIdx = Len(ClNames(ClType))
       IN /\ clLog' = IF name \in ClSystem(ClType) THEN clLog
                      ELSE IF ok
                      THEN [clLog EXCEPT !.tried = @ \cup {<<ClType, name>>},
                                         !.dropped = @ \cup {<<ClType, name>>}]
                      ELSE [clLog EXCEPT !.tried = @ \cup {<<ClType, name>>},
                                         !.failed = @ \cup {<<ClType, name>>}]
          /\ clDropIdx' = clDropIdx + 1
          /\ clPhase' = IF last THEN "finally" ELSE "drop"
          /\ UNCHANGED <<clIndex, clThrown>>

(* finally { await adapter.disconnect() }: the call is made; what
   dropAllUserDatabases threw, or what disconnect throws, reaches the catch
   of the loop body; otherwise continue. *)
ClDisconnect(ok) ==
    /\ clPhase = "finally"
    /\ clLog' = [clLog EXCEPT !.disconnected = @ \cup {ClType},
                              !.errors = IF clThrown \/ ~ok THEN @ \cup {ClType} ELSE @]
    /\ ClContinue

ClConnecting == \E ok \in BOOLEAN : ClConnect(ok)

ClListing == \E ok \in BOOLEAN : ClList(ok)

ClDropping == \E ok \in BOOLEAN : ClDrop(ok)

ClDisconnecting == \E ok \in BOOLEAN : ClDisconnect(ok)

(***************************************************************************)
(* The adapters of recorded sessions: the pool, the health-check timer,    *)
(* and closeSession, each await being one step.                            *)
(***************************************************************************)
HcMaxSessions == 2

HcIds == 1..HcMaxSessions

HcTypes == {"postgresql", "mysql"}

VARIABLES hcSessions, hcAdapters, hcNextId

hcVars == <<hcSessions, hcAdapters, hcNextId>>

(* hcSessions[id] is "none" before the session is recorded, "open" while it
   is in the sessions map, "closing" while closeSession awaits disconnect,
   "resuming" once that await is over, and "closed" after sessions.delete.
   The session stays in the map until then. *)
HCInit ==
    /\ hcSessions = [id \in HcIds |-> "none"]
    /\ hcAdapters = [id \in HcIds |-> [type |-> "postgresql", pool |-> FALSE,
                                       healthCheckInterval |-> FALSE, ending |-> {}]]
    /\ hcNextId = 1

HcInMap(id) == hcSessions[id] \in {"open", "closing", "resuming"}

(* adapter.isConnected(): this.pool !== null. *)
isConnected(adapter) == adapter.pool

(* adapter.connect succeeded (pool created, startHealthCheck) and
   createSession recorded the session. *)
HcCreateSession(type) ==
    /\ hcNextId <= HcMaxSessions
    /\ hcAdapters' = [hcAdapters EXCEPT ![hcNextId] =
                          [type |-> type, pool |-> TRUE, healthCheckInterval |-> TRUE,
                           ending |-> {}]]
    /\ hcSessions' = [hcSessions EXCEPT ![hcNextId] = "open"]
    /\ hcNextId' = hcNextId + 1

(* adapter.disconnect up to its await: stopHealthCheck, then pool.end() if
   there is a pool.  caller is who awaits the call. *)
HcDisconnectBegin(adapter, caller) ==
    [adapter EXCEPT !.healthCheckInterval = FALSE,
                    !.ending = IF adapter.pool THEN @ \cup {caller} ELSE @]

(* The timer callback of startHealthCheck: nothing without a pool; SELECT 1
   on a pooled connection; on failure, await this.disconnect(). *)
HcHealthCheck(id, ok) ==
    /\ hcAdapters[id].healthCheckInterval
    /\ hcAdapters' = IF hcAdapters[id].pool /\ ~ok
                     THEN [hcAdapters EXCEPT ![id] = HcDisconnectBegin(@, "timer")]
                     ELSE hcAdapters
    /\ UNCHANGED <<hcSessions, hcNextId>>

(* closeSession up to its await of session.adapter.disconnect(). *)
HcCloseSession(id) ==
    /\ hcSessions[id] = "open"
    /\ hcAdapters' = [hcAdapters EXCEPT ![id] = HcDisconnectBegin(@, "close")]
    /\ hcSessions' = [hcSessions EXCEPT ![id] =
                          IF hcAdapters[id].pool THEN "closing" ELSE "resuming"]
    /\ UNCHANGED hcNextId

(* pool.end() settles for one caller of disconnect: fulfilled, the caller
   sets this.pool = null; rejected, disconnect throws, which closeSession
   catches.  Either way the await of closeSession is over. *)
HcPoolEnd(id, caller, ok) ==
    /\ caller \in hcAdapters[id].ending
    /\ hcAdapters' = [hcAdapters EXCEPT ![id].ending = @ \ {caller},
                                        ![id].pool = IF ok THEN FALSE ELSE @]
    /\ hcSessions' = IF caller = "close" THEN [hcSessions EXCEPT ![id] = "resuming"]
                     ELSE hcSessions
    /\ UNCHANGED hcNextId

(* closeSession after the await: this.sessions.delete(sessionId). *)
HcCloseResume(id) ==
    /\ hcSessions[id] = "resuming"
    /\ hcSessions' = [hcSessions EXCEPT ![id] = "closed"]
    /\ UNCHANGED <<hcAdapters, hcNextId>>

HcCreating == \E type \in HcTypes : HcCreateSession(type)

HcTimer == \E id \in HcIds, ok \in BOOLEAN : HcHealthCheck(id, ok)

HcClosing == \E id \in HcIds : HcCloseSession(id)

HcPoolEnding == \E id \in HcIds, caller \in {"timer", "close"}, ok \in BOOLEAN : HcPoolEnd(id, caller, ok)

HcResuming == \E id \in HcIds : HcCloseResume(id)

(***************************************************************************)
(* A /query/execute request in flight: the editor's AbortController on one *)
(* side, the handler's loop over the statements on the other.              *)
(***************************************************************************)
XqMaxRequests == 2

XqMaxStatements == 2

XqIds == 1..XqMaxRequests

VARIABLES xqRequests, xqNextId, abortControllerRef

xqVars == <<xqRequests, xqNextId, abortControllerRef>>

(* A request: where the handler is ("none", "running", "responded"), how
   many statements it has and has executed, the calls made on the driver,
   the status of the response, whether its signal is aborted and whether
   that happened while the handler was running, and what the editor shows
   for it ("none", "result", "error", "cancelled"). *)
XqNoRequest ==
    [state |-> "none", statements |-> 0, executed |-> 0, driverCalls |-> {}, status |-> 0,
     aborted |-> FALSE, abortedInFlight |-> FALSE, shown |-> "none"]

XQInit ==
    /\ xqRequests = [r \in XqIds |-> XqNoRequest]
    /\ xqNextId = 1
    /\ abortControllerRef = 0

(* controller.abort(): the signal is aborted; a pending fetch rejects and
   the catch of executeQuery shows 'Query cancelled' with messageType info.
   Nothing is sent to the server. *)
XqAbort(request) ==
    IF request.aborted \/ request.shown # "none"
    THEN [request EXCEPT !.aborted = TRUE]
    ELSE [request EXCEPT !.aborted = TRUE,
                         !.abortedInFlight = request.state = "running",
                         !.shown = "cancelled"]

(* executeQuery of the editor: abort the previous controller, install a new
   one, send the request; the handler starts on it. *)
XqExecuteQuery(statements) ==
    /\ xqNextId <= XqMaxRequests
    /\ xqRequests' = [r \in XqIds |->
                          IF r = xqNextId
                          THEN [XqNoRequest EXCEPT !.state = "running", !.statements = statements]
                          ELSE IF r = abortControllerRef THEN XqAbort(xqRequests[r])
                          ELSE xqRequests[r]]
    /\ abortControllerRef' = xqNextId
    /\ xqNextId' = xqNextId + 1

(* handleCancelQuery: abort the current controller; the finally of
   executeQuery then clears the reference. *)
XqCancelQuery ==
    /\ abortControllerRef # 0
    /\ xqRequests' = [xqRequests EXCEPT ![abortControllerRef] = XqAbort(@)]
    /\ abortControllerRef' = 0
    /\ UNCHANGED xqNextId

(* One turn of the handler's loop: await session.adapter.executeQuery.  A
   throw is answered with 400, the end of the loop with 200.  The handler
   does not read request.signal. *)
XqStatement(r, ok) ==
    /\ xqRequests[r].state = "running"
    /\ LET request == xqRequests[r]
           after == [request EXCEPT !.executed = @ + 1,
                                    !.driverCalls = @ \cup {"executeQuery"}]
       IN xqRequests' = [xqRequests EXCEPT ![r] =
              IF ~ok THEN [after EXCEPT !.state = "responded", !.status = 400]
              ELSE IF after.executed = after.statements
              THEN [after EXCEPT !.state = "responded", !.status = 200]
              ELSE after]
    /\ UNCHANGED <<xqNextId, abortControllerRef>>

(* The response reaches a fetch that was not aborted: the editor shows the
   result or the error and clears the reference if it is still its own. *)
XqResponse(r) ==
    /\ xqRequests[r].state = "responded"
    /\ xqRequests[r].shown = "none"
    /\ ~xqRequests[r].aborted
    /\ xqRequests' = [xqRequests EXCEPT ![r].shown =
                          IF xqRequests[r].status = 200 THEN "result" ELSE "error"]
    /\ abortControllerRef' = IF abortControllerRef = r THEN 0 ELSE abortControllerRef
    /\ UNCHANGED xqNextId

XqExecuting == \E statements \in 1..XqMaxStatements : XqExecuteQuery(statements)

XqRunning == \E r \in XqIds, ok \in BOOLEAN : XqStatement(r, ok)

XqResponding == \E r \in XqIds : XqResponse(r)

(***************************************************************************)
(* createSession, await by await, with the adapters it makes: the main     *)
(* adapter of the session and, on the isolated path of PostgreSQL and      *)
(* MySQL, the temporary adapter that creates the user database.  Calls run *)
(* one after the other here; their overlap is the subject of the           *)
(* ConnectionManager part above.                                           *)
(***************************************************************************)
CsMaxCalls == 2

CsAdapterIds == 1..(2 * CsMaxCalls)

CsNoAdapter == [made |-> FALSE, connected |-> FALSE, pool |-> FALSE, healthCheckInterval |-> FALSE]

VARIABLES csSessions, csUserSessions, csAdapters, csCall, csCalls, csLast

csVars == <<csSessions, csUserSessions, csAdapters, csCall, csCalls, csLast>>

(* csSessions[a] is the session whose adapter is a, or Nil. *)
CSInit ==
    /\ csSessions = [a \in CsAdapterIds |-> Nil]
    /\ csUserSessions = [u \in GwUsers |-> 0]
    /\ csAdapters = [a \in CsAdapterIds |-> CsNoAdapter]
    /\ csCall = Nil
    /\ csCalls = 0
    /\ csLast = Nil

CsRecorded(sess) == {a \in CsAdapterIds : sess[a] # Nil}

(* adapter.connect: the pool is assigned before the first client is asked
   for; the health check starts only when that succeeded. *)
CsConnected(adapter, ok) ==
    [made |-> TRUE, connected |-> adapter.connected \/ ok, pool |-> TRUE,
     healthCheckInterval |-> adapter.healthCheckInterval \/ ok]

(* adapter.disconnect: stopHealthCheck, pool.end(), pool = null. *)
CsDisconnected(adapter) == [adapter EXCEPT !.pool = FALSE, !.healthCheckInterval = FALSE]

(* A throw that leaves createSession, here recording the session first. *)
CsThrowRecording(cause) ==
    /\ csSessions' = [csSessions EXCEPT ![csCall.adapter] =
                          [userId |-> csCall.userId, isIsolated |-> csCall.isIsolated,
                           userDatabase |-> csCall.userDatabase]]
    /\ csLast' = [outcome |-> "threw", cause |-> cause, before |-> csCall.before,
                  usersBefore |-> csCall.usersBefore]
    /\ csCall' = Nil
    /\ UNCHANGED <<csUserSessions, csCalls>>

(* A throw that leaves createSession: nothing after it runs. *)
CsThrow(cause) ==
    /\ csLast' = [outcome |-> "threw", cause |-> cause, before |-> csCall.before,
                  usersBefore |-> csCall.usersBefore]
    /\ csCall' = Nil
    /\ UNCHANGED <<csSessions, csUserSessions, csCalls>>

(* createSession up to its first connect: closeSession of the user's
   previous session, the new adapter, the choice of the path. *)
CsCreateSession(type, userId, isIsolated) ==
    /\ csCall = Nil
    /\ csCalls < CsMaxCalls
    /\ LET previous == IF userId # NoUser THEN csUserSessions[userId] ELSE 0
           closes == previous # 0 /\ csSessions[previous] # Nil
           sess == IF closes THEN [csSessions EXCEPT ![previous] = Nil] ELSE csSessions
           users == IF closes THEN [csUserSessions EXCEPT ![userId] = 0] ELSE csUserSessions
           main == 2 * csCalls + 1
           wanted == isIsolated /\ userId # NoUser
       IN /\ csSessions' = sess
          /\ csUserSessions' = users
          /\ csAdapters' = [a \in CsAdapterIds |->
                               IF a = main THEN [CsNoAdapter EXCEPT !.made = TRUE]
                               ELSE IF closes /\ a = previous THEN CsDisconnected(csAdapters[a])
                               ELSE csAdapters[a]]
          /\ csCall' = [pc |-> IF ~wanted THEN "plain"
                               ELSE IF type = "mongodb" THEN "user" ELSE "temp",
                        type |-> type, userId |-> userId, isIsolated |-> isIsolated,
                        adapter |-> main, tempAdapter |-> main + 1,
                        userDatabase |-> IF wanted THEN userDatabaseOf(userId) ELSE "none",
                        before |-> CsRecorded(sess),
                        usersBefore |-> {users[u] : u \in GwUsers}]
          /\ csCalls' = csCalls + 1
          /\ UNCHANGED csLast

(* await tempAdapter.connect(baseUrl); a failure goes to the catch. *)
CsConnectTemp(ok) ==
    /\ csCall # Nil /\ csCall.pc = "temp"
    /\ csAdapters' = [csAdapters EXCEPT ![csCall.tempAdapter] = CsConnected(@, ok)]
    /\ csCall' = [csCall EXCEPT !.pc = IF ok THEN "provision" ELSE "fallback"]
    /\ UNCHANGED <<csSessions, csUserSessions, csCalls, csLast>>

(* CREATE DATABASE on the temporary adapter, its failure caught and logged,
   then await tempAdapter.disconnect(). *)
CsProvision(ok) ==
    /\ csCall # Nil /\ csCall.pc = "provision"
    /\ csAdapters' = [csAdapters EXCEPT ![csCall.tempAdapter] = CsDisconnected(@)]
    /\ csCall' = [csCall EXCEPT !.pc = "user"]
    /\ UNCHANGED <<csSessions, csUserSessions, csCalls, csLast>>

(* await adapter.connect(userUrl) (connectionUrl for MongoDB); a failure
   goes to the catch. *)
CsConnectUser(ok) ==
    /\ csCall # Nil /\ csCall.pc = "user"
    /\ csAdapters' = [csAdapters EXCEPT ![csCall.adapter] = CsConnected(@, ok)]
    /\ csCall' = [csCall EXCEPT !.pc = IF ok THEN "version" ELSE "fallback"]
    /\ UNCHANGED <<csSessions, csUserSessions, csCalls, csLast>>

(* The catch of the isolated path: await adapter.connect(connectionUrl),
   then userDatabase = undefined. *)
CsConnectFallback(ok) ==
    /\ csCall # Nil /\ csCall.pc = "fallback"
    /\ csAdapters' = [csAdapters EXCEPT ![csCall.adapter] = CsConnected(@, ok)]
    /\ IF ok
       THEN /\ csCall' = [csCall EXCEPT !.pc = "version", !.userDatabase = "none"]
            /\ UNCHANGED <<csSessions, csUserSessions, csCalls, csLast>>
       ELSE CsThrow("connect")

(* The else branch: await adapter.connect(connectionUrl). *)
CsConnectPlain(ok) ==
    /\ csCall # Nil /\ csCall.pc = "plain"
    /\ csAdapters' = [csAdapters EXCEPT ![csCall.adapter] = CsConnected(@, ok)]
    /\ IF ok
       THEN /\ csCall' = [csCall EXCEPT !.pc = "version"]
            /\ UNCHANGED <<csSessions, csUserSessions, csCalls, csLast>>
       ELSE CsThrow("connect")

(* await adapter.getServerVersion(), then sessions.set and
   userSessions.set. *)
CsServerVersion(ok) ==
    /\ csCall # Nil /\ csCall.pc = "version"
    /\ IF ok
       THEN /\ csSessions' = [csSessions EXCEPT ![csCall.adapter] =
                                  [userId |-> csCall.userId, isIsolated |-> csCall.isIsolated,
                                   userDatabase |-> csCall.userDatabase]]
            /\ csUserSessions' = IF csCall.userId # NoUser
                                 THEN [csUserSessions EXCEPT ![csCall.userId] = csCall.adapter]
                                 ELSE csUserSessions
            /\ csLast' = [outcome |-> "returned", cause |-> "none", before |-> csCall.before,
                          usersBefore |-> csCall.usersBefore]
            /\ csCall' = Nil
            /\ UNCHANGED csCalls
       ELSE CsThrow("getServerVersion")
    /\ UNCHANGED csAdapters

CsCreating ==
    \E type \in GwTypes, userId \in GwUsers \cup {NoUser}, isIsolated \in BOOLEAN :
        CsCreateSession(type, userId, isIsolated)

(***************************************************************************)
(* Limiter calls on one key that overlap inside one window: each call is   *)
(* cut at the await of its read and the await of its write.                *)
(***************************************************************************)
RcMaxCalls == 3

RcCalls == 1..RcMaxCalls

VARIABLES rcStore, rcPc, rcRead, rcAllowed

rcVars == <<rcStore, rcPc, rcRead, rcAllowed>>

(* rcAllowed: the remaining values returned to the allowed requests, in the
   order of their return. *)
RCInit ==
    /\ rcStore = Nil
    /\ rcPc = [k \in RcCalls |-> "idle"]
    /\ rcRead = [k \in RcCalls |-> Nil]
    /\ rcAllowed = <<>>

(* limit() up to the end of `await getRateLimitRecord(redis, bucketKey)`. *)
RcGet(k) ==
    /\ rcPc[k] = "idle"
    /\ rcRead' = [rcRead EXCEPT ![k] = getRateLimitRecord(rcStore, 0, "ok")]
    /\ rcPc' = [rcPc EXCEPT ![k] = "read"]
    /\ UNCHANGED <<rcStore, rcAllowed>>

(* limit() from the comparison to its return: the record it writes is made
   from the record it read. *)
RcSet(k) ==
    /\ rcPc[k] = "read"
    /\ LET out == LimitOutcome(rcRead[k], 0)
       IN /\ rcStore' = IF out.write = Nil THEN rcStore
                        ELSE setRateLimitRecord(rcStore, out.write.count, out.write.resetTime,
                                                0, "ok")
          /\ rcAllowed' = IF out.success THEN Append(rcAllowed, out.remaining) ELSE rcAllowed
    /\ rcPc' = [rcPc EXCEPT ![k] = "done"]
    /\ UNCHANGED rcRead

(***************************************************************************)
(* Requests to /query/execute on the sessions of the part above: the loop  *)
(* of the route calls adapter.executeQuery once per statement, and the     *)
(* health check of the adapter may fail while a statement is running.      *)
(***************************************************************************)
HrMaxStatements == 2

VARIABLES hrRequests

hrVars == <<hrRequests>>

(* A request: "none", "running" (a statement is on its client) or "done";
   the statements left after the running one; whether a health check failed
   while it was running; the status and the error it ended with. *)
HRInit ==
    hrRequests = [id \in HcIds |-> [pc |-> "none", left |-> 0, hit |-> FALSE, status |-> 0,
                                    error |-> "none"]]

(* The head of executeQuery: 'Not connected' without a pool; a pool that is
   ending hands out no client. *)
HrExecuteQueryHead(adapter) ==
    IF ~adapter.pool THEN "Not connected"
    ELSE IF adapter.ending # {} THEN "pool ended"
    ELSE "none"

(* POST /query/execute arrives for an open session: executeQuery of the
   first statement, or the 400 of the catch. *)
HrExecuteRoute(id, statements) ==
    /\ hcSessions[id] = "open"
    /\ hrRequests[id].pc = "none"
    /\ LET error == HrExecuteQueryHead(hcAdapters[id])
       IN hrRequests' = [hrRequests EXCEPT ![id] =
              IF error # "none"
              THEN [pc |-> "done", left |-> 0, hit |-> FALSE, status |-> 400, error |-> error]
              ELSE [pc |-> "running", left |-> statements - 1, hit |-> FALSE, status |-> 0,
                    error |-> "none"]]

(* The running statement settles on its client; the loop goes on to
   executeQuery of the next statement or the route answers. *)
HrStatementSettled(id, ok) ==
    /\ hrRequests[id].pc = "running"
    /\ LET request == hrRequests[id]
           error == HrExecuteQueryHead(hcAdapters[id])
       IN hrRequests' = [hrRequests EXCEPT ![id] =
              IF ~ok
              THEN [request EXCEPT !.pc = "done", !.status = 400, !.error = "query failed"]
              ELSE IF request.left = 0
              THEN [request EXCEPT !.pc = "done", !.status = 200]
              ELSE IF error # "none"
              THEN [request EXCEPT !.pc = "done", !.status = 400, !.error = error]
              ELSE [request EXCEPT !.left = @ - 1]]

(* The timer callback of startHealthCheck, with the requests that are
   running when the check fails noted. *)
HrHealthCheck(id, ok) ==
    /\ HcHealthCheck(id, ok)
    /\ hrRequests' = [hrRequests EXCEPT ![id].hit =
                          @ \/ (hcAdapters[id].pool /\ ~ok /\ hrRequests[id].pc = "running")]

(***************************************************************************)
(* The idle clock of a session under signed requests: keepalive and        *)
(* query/execute look the session up with connectionManager.getSession,    *)
(* which refreshes lastActivity and the idle timer, and then validate the  *)
(* signature (keepalive/route.ts, src/unnamed/part_009).                   *)
(***************************************************************************)
KaMaxTime == 3
KaIdleTimeout == 2

VARIABLES
    kaNow,     \* Date.now()
    kaSession, \* the record of session S in the sessions map, and its timer
    kaLast     \* the last request answered

kaVars == <<kaNow, kaSession, kaLast>>

KAInit ==
    /\ kaNow = 0
    /\ kaSession = [live |-> TRUE, lastActivity |-> 0, timeout |-> KaIdleTimeout]
    /\ kaLast = Nil

(* ConnectionManager.getSession on a session of the map: lastActivity and
   resetSessionTimeout. *)
KaGetSession(session, now) ==
    IF session.live
    THEN [session EXCEPT !.lastActivity = now, !.timeout = now + KaIdleTimeout]
    ELSE session

(* A route that names S: getSession, then validateRequestSignature with the
   key of the session, then the handler. *)
KaSignedRoute(endpoint, missing, timestamp, signature) ==
    LET found == kaSession.live
        verdict == validateRequestSignature("K", "body", timestamp, signature, kaNow)
    IN /\ kaSession' = KaGetSession(kaSession, kaNow)
       /\ kaLast' = [endpoint |-> endpoint,
                     status |-> IF ~found THEN missing
                                ELSE IF verdict # "valid" THEN 401 ELSE 200,
                     verdict |-> IF found THEN verdict ELSE "unchecked",
                     before |-> kaSession]
       /\ UNCHANGED kaNow

KaKeepaliveRoute(timestamp, signature) ==
    KaSignedRoute("keepalive", 404, timestamp, signature)

KaExecuteRoute(timestamp, signature) ==
    KaSignedRoute("query/execute", 401, timestamp, signature)

(* handleSessionTimeout: the idle timer of S fires and the session closes. *)
KaSessionTimeout ==
    /\ kaSession.live
    /\ kaNow >= kaSession.timeout
    /\ kaSession' = [kaSession EXCEPT !.live = FALSE]
    /\ kaLast' = Nil
    /\ UNCHANGED kaNow

(* Time passes; a timer that is due fires before the clock moves on. *)
KaTick ==
    /\ kaNow < KaMaxTime
    /\ ~(kaSession.live /\ kaNow >= kaSession.timeout)
    /\ kaNow' = kaNow + 1
    /\ UNCHANGED <<kaSession, kaLast>>

KaKeepalive == \E h \in AuHeaders : KaKeepaliveRoute(h.timestamp, h.signature)

KaExecute == \E h \in AuHeaders : KaExecuteRoute(h.timestamp, h.signature)

(***************************************************************************)
(* The statement loop of POST /query/execute (src/unnamed/part_009) for a  *)
(* SQL batch: validateQuery and adapter.executeQuery per statement, cut at *)
(* the await of executeQuery.                                              *)
(***************************************************************************)
BtMaxStatements == 3

(* The statements of a batch: one that validates, one the parser rejects
   and one that validates unless the session is isolated. *)
BtStatementSet ==
    {[kind |-> "select", ref |-> "none", parses |-> TRUE],
     [kind |-> "select", ref |-> "none", parses |-> FALSE],
     [kind |-> "alter_table", ref |-> "none", parses |-> TRUE]}

BtBatches == UNION {[1..n -> BtStatementSet] : n \in 1..BtMaxStatements}

VARIABLES
    btBatch,    \* splitSqlStatements(query)
    btIsolated, \* session.isIsolated ?? false
    btRequest   \* the request: where its loop stands and what it has done

btVars == <<btBatch, btIsolated, btRequest>>

(* sent: the statements handed to adapter.executeQuery, in the order of
   the calls; effects: the statements the engine executed without error. *)
BtArrived == [pc |-> "arrived", index |-> 0, sent |-> <<>>, effects |-> {}, status |-> 0]

BTInit == btBatch = <<>> /\ btIsolated = FALSE /\ btRequest = BtArrived

BTInitBatches == btBatch \in BtBatches /\ btIsolated \in BOOLEAN /\ btRequest = BtArrived

(* The head of an iteration for statement i: the 400 of a failed
   validation, or the call of adapter.executeQuery. *)
BtIterate(request, i) ==
    IF ~validateQuery("postgresql", btBatch[i], btIsolated)
    THEN [request EXCEPT !.pc = "done", !.index = i, !.status = 400]
    ELSE [request EXCEPT !.pc = "awaiting", !.index = i, !.sent = Append(@, i)]

(* The request reaches the loop, or the 400 of a query without statements. *)
BtArrive ==
    /\ btRequest.pc = "arrived"
    /\ btRequest' = IF Len(btBatch) = 0
                    THEN [btRequest EXCEPT !.pc = "done", !.status = 400]
                    ELSE BtIterate(btRequest, 1)
    /\ UNCHANGED <<btBatch, btIsolated>>

(* The mutant of BtSettled below: a loop whose body catches the error of a
   statement and goes on. *)
BtSettledGoesOn(ok) ==
    /\ btRequest.pc = "awaiting"
    /\ LET i == btRequest.index
           settled == IF ok THEN [btRequest EXCEPT !.effects = @ \cup {i}] ELSE btRequest
       IN btRequest' =
              IF i = Len(btBatch)
              THEN [settled EXCEPT !.pc = "done", !.status = IF ok THEN 200 ELSE 400]
              ELSE BtIterate(settled, i + 1)
    /\ UNCHANGED <<btBatch, btIsolated>>

(* executeQuery of statement i settles: the catch answers 400 when it
   rejects; otherwise the loop goes on to statement i + 1 or the route
   answers 200. *)
BtSettled(ok) ==
    /\ btRequest.pc = "awaiting"
    /\ LET i == btRequest.index
           settled == [btRequest EXCEPT !.effects = @ \cup {i}]
       IN btRequest' =
              IF ~ok
              THEN [btRequest EXCEPT !.pc = "done", !.status = 400]
              ELSE IF i = Len(btBatch)
              THEN [settled EXCEPT !.pc = "done", !.status = 200]
              ELSE BtIterate(settled, i + 1)
    /\ UNCHANGED <<btBatch, btIsolated>>

BtSettling == \E ok \in BOOLEAN : BtSettled(ok)

(***************************************************************************)
(* performCleanup (src/lib/types/index.ts) while sessions are live: on the *)
(* default server of a SQL type dropAllUserDatabases drops, one statement  *)
(* at a time, every database the server lists outside the system names.    *)
(* The sessions map is not consulted.                                      *)
(***************************************************************************)

(* One DROP DATABASE IF EXISTS of the loop in dropAllUserDatabases
   (PostgreSQL ends the backends of the database first); a DROP that fails
   is logged and the loop goes on. *)
GwDropUserDatabase(type, name, ok) ==
    /\ <<type, loadDefaultDatabases[type].base, name>> \in gwDatabases
    /\ name \notin ClSystem(type)
    /\ gwDatabases' = IF ok THEN gwDatabases \ {<<type, loadDefaultDatabases[type].base, name>>}
                      ELSE gwDatabases
    /\ gwLast' = Nil
    /\ UNCHANGED <<gwSessions, gwNextId>>

GwDropping ==
    \E type \in {"postgresql", "mysql"}, name \in {userDatabaseOf(u) : u \in GwUsers},
       ok \in BOOLEAN :
        GwDropUserDatabase(type, name, ok)

(***************************************************************************)
(* executeQuery of the SQL adapters on pooled clients (PostgresAdapter     *)
(* and MySQLAdapter in src/unnamed/part_022), outside a transaction: a     *)
(* client is taken from the pool, `SET search_path` (PostgreSQL) or `USE`  *)
(* (MySQL) is sent on it when a database argument is passed, the query     *)
(* runs and the finally block releases the client.  The setting belongs to *)
(* the server session of the client and stays with it in the pool.         *)
(***************************************************************************)
PoMaxClients == 2
PoMaxCalls == 2

PoClients == 1..PoMaxClients
PoCalls == 1..PoMaxCalls

(* The database argument of executeQuery: "none" when it is not passed. *)
PoDatabases == {"none", "u_a", "u_b"}

VARIABLES
    poClients, \* the clients of the pool: checked out or idle, and their setting
    poCalls,   \* the executeQuery calls in progress
    poLast     \* the last query run: its database argument and what it ran with

poVars == <<poClients, poCalls, poLast>>

PoIdleCall == [pc |-> "idle", database |-> "none", client |-> 0]

POInit ==
    /\ poClients = [c \in PoClients |-> [busy |-> FALSE, searchPath |-> "default"]]
    /\ poCalls = [k \in PoCalls |-> PoIdleCall]
    /\ poLast = Nil

(* executeQuery up to `await this.pool.connect()` / getConnection(). *)
PoExecuteQuery(k, database) ==
    /\ poCalls[k].pc = "idle"
    /\ poCalls' = [poCalls EXCEPT ![k] = [pc |-> "connecting", database |-> database,
                                          client |-> 0]]
    /\ UNCHANGED <<poClients, poLast>>

(* The pool hands out an idle client; with a database argument the SET
   search_path / USE statement is sent on it. *)
PoConnected(k, c) ==
    /\ poCalls[k].pc = "connecting"
    /\ ~poClients[c].busy
    /\ poClients' = [poClients EXCEPT ![c].busy = TRUE]
    /\ poCalls' = [poCalls EXCEPT ![k].client = c,
                                  ![k].pc = IF poCalls[k].database # "none" THEN "setting"
                                            ELSE "querying"]
    /\ UNCHANGED poLast

(* SET search_path TO "<database>", public / USE `<database>` settles. *)
PoSetDatabase(k) ==
    /\ poCalls[k].pc = "setting"
    /\ poClients' = [poClients EXCEPT ![poCalls[k].client].searchPath = poCalls[k].database]
    /\ poCalls' = [poCalls EXCEPT ![k].pc = "querying"]
    /\ UNCHANGED poLast

(* The query settles under the setting of its client, and the finally
   block releases the client as it is. *)
PoQuerySettled(k, ok) ==
    /\ poCalls[k].pc = "querying"
    /\ poLast' = [database |-> poCalls[k].database,
                  ranWith |-> poClients[poCalls[k].client].searchPath, ok |-> ok]
    /\ poClients' = [poClients EXCEPT ![poCalls[k].client].busy = FALSE]
    /\ poCalls' = [poCalls EXCEPT ![k] = PoIdleCall]

PoExecuting == \E k \in PoCalls, database \in PoDatabases : PoExecuteQuery(k, database)

PoConnecting == \E k \in PoCalls, c \in PoClients : PoConnected(k, c)

PoSetting == \E k \in PoCalls : PoSetDatabase(k)

PoQuerying == \E k \in PoCalls, ok \in BOOLEAN : PoQuerySettled(k, ok)

(***************************************************************************)
(* Specifications.                                                         *)
(***************************************************************************)
vars == <<rlVars, cmVars, txVars, auVars, gwVars, pgVars, spVars, mgVars, clVars, hcVars, xqVars, csVars, rcVars, hrVars, kaVars, btVars, poVars>>

(* What each subsystem leaves alone: the variables of the others. *)
rlRest == <<cmVars, txVars, auVars, gwVars, pgVars, spVars, mgVars, clVars, hcVars, xqVars, csVars, rcVars, hrVars, kaVars, btVars, poVars>>

cmRest == <<rlVars, txVars, auVars, gwVars, pgVars, spVars, mgVars, clVars, hcVars, xqVars, csVars, rcVars, hrVars, kaVars, btVars, poVars>>

txRest == <<rlVars, cmVars, auVars, gwVars, pgVars, spVars, mgVars, clVars, hcVars, xqVars, csVars, rcVars, hrVars, kaVars, btVars, poVars>>

auRest == <<rlVars, cmVars, txVars, gwVars, pgVars, spVars, mgVars, clVars, hcVars, xqVars, csVars, rcVars, hrVars, kaVars, btVars, poVars>>

gwRest == <<rlVars, cmVars, txVars, auVars, pgVars, spVars, mgVars, clVars, hcVars, xqVars, csVars, rcVars, hrVars, kaVars, btVars, poVars>>

pgRest == <<rlVars, cmVars, txVars, auVars, gwVars, spVars, mgVars, clVars, hcVars, xqVars, csVars, rcVars, hrVars, kaVars, btVars, poVars>>

spRest == <<rlVars, cmVars, txVars, auVars, gwVars, pgVars, mgVars, clVars, hcVars, xqVars, csVars, rcVars, hrVars, kaVars, btVars, poVars>>

mgRest == <<rlVars, cmVars, txVars, auVars, gwVars, pgVars, spVars, clVars, hcVars, xqVars, csVars, rcVars, hrVars, kaVars, btVars, poVars>>

clRest == <<rlVars, cmVars, txVars, auVars, gwVars, pgVars, spVars, mgVars, hcVars, xqVars, csVars, rcVars, hrVars, kaVars, btVars, poVars>>

hcRest == <<rlVars, cmVars, txVars, auVars, gwVars, pgVars, spVars, mgVars, clVars, xqVars, csVars, rcVars, hrVars, kaVars, btVars, poVars>>

xqRest == <<rlVars, cmVars, txVars, auVars, gwVars, pgVars, spVars, mgVars, clVars, hcVars, csVars, rcVars, hrVars, kaVars, btVars, poVars>>

csRest == <<rlVars, cmVars, txVars, auVars, gwVars, pgVars, spVars, mgVars, clVars, hcVars, xqVars, rcVars, hrVars, kaVars, btVars, poVars>>

rcRest == <<rlVars, cmVars, txVars, auVars, gwVars, pgVars, spVars, mgVars, clVars, hcVars, xqVars, csVars, hrVars, kaVars, btVars, poVars>>

hrRest == <<rlVars, cmVars, txVars, auVars, gwVars, pgVars, spVars, mgVars, clVars, hcVars, xqVars, csVars, rcVars, kaVars, btVars, poVars>>

kaRest == <<rlVars, cmVars, txVars, auVars, gwVars, pgVars, spVars, mgVars, clVars, hcVars, xqVars, csVars, rcVars, hrVars, btVars, poVars>>

btRest == <<rlVars, cmVars, txVars, auVars, gwVars, pgVars, spVars, mgVars, clVars, hcVars, xqVars, csVars, rcVars, hrVars, kaVars, poVars>>

poRest == <<rlVars, cmVars, txVars, auVars, gwVars, pgVars, spVars, mgVars, clVars, hcVars, xqVars, csVars, rcVars, hrVars, kaVars, btVars>>

Init == RLInit /\ CMInit /\ TXInit /\ AUInit /\ GWInit /\ PGInit /\ SPInit /\ MGInit /\ CLInit /\ HCInit /\ XQInit /\ CSInit /\ RCInit /\ HRInit /\ KAInit /\ BTInit /\ POInit

(* The limiter called by one client at a time, the store available. *)
NextRL ==
    \/ RLTick /\ UNCHANGED rlRest
    \/ RLCall /\ UNCHANGED rlRest

SpecRL == Init /\ [][NextRL]_vars

(* The same with storage failures. *)
NextRLFail ==
    \/ RLTick /\ UNCHANGED rlRest
    \/ RLCall /\ UNCHANGED rlRest
    \/ RLCallFailing /\ UNCHANGED rlRest

SpecRLFail == Init /\ [][NextRLFail]_vars

(* The ConnectionManager under requests that overlap at their awaits, its
   timers and its sweep. *)
NextCM ==
    \/ CMTick /\ UNCHANGED cmRest
    \/ CMCreate /\ UNCHANGED cmRest
    \/ CMCreated /\ UNCHANGED cmRest
    \/ CMCreateFailed /\ UNCHANGED cmRest
    \/ CMGetSession /\ UNCHANGED cmRest
    \/ CMAllowDestructive /\ UNCHANGED cmRest
    \/ CMDisconnect /\ UNCHANGED cmRest
    \/ CMTimer /\ UNCHANGED cmRest
    \/ cleanupIdleSessions /\ UNCHANGED cmRest
    \/ CMClosed /\ UNCHANGED cmRest

SpecCM == Init /\ [][NextCM]_vars

(* One SQL adapter under transaction requests that overlap. *)
NextTxn ==
    \/ TxBegin /\ UNCHANGED txRest
    \/ TxConnected /\ UNCHANGED txRest
    \/ TxBeginSettled /\ UNCHANGED txRest
    \/ TxEnd /\ UNCHANGED txRest
    \/ TxEndSettled /\ UNCHANGED txRest

SpecTxn == Init /\ [][NextTxn]_vars

(* Requests to the signed endpoints of one session, signed or not. *)
NextAuth ==
    \/ AuTick /\ UNCHANGED auRest
    \/ AuDisconnect /\ UNCHANGED auRest
    \/ AuKeepalive /\ UNCHANGED auRest
    \/ AuSessionExtend /\ UNCHANGED auRest
    \/ AuExecute /\ UNCHANGED auRest
    \/ AuExport /\ UNCHANGED auRest
    \/ AuTransaction /\ UNCHANGED auRest
    \/ AuSchema /\ UNCHANGED auRest

SpecAuth == Init /\ [][NextAuth]_vars

(* Sessions of every kind and the destructive statements sent on them. *)
NextGateway ==
    \/ GwConnect /\ UNCHANGED gwRest
    \/ GwCreate /\ UNCHANGED gwRest
    \/ GwSessionExtend /\ UNCHANGED gwRest
    \/ GwExecute /\ UNCHANGED gwRest

SpecGateway == Init /\ [][NextGateway]_vars

(* Tenants of the default SQL servers and the statements, exports and schema
   reads that name a database. *)
NextTenants ==
    \/ GwConnectTenant /\ UNCHANGED gwRest
    \/ GwExecuteIn /\ UNCHANGED gwRest
    \/ GwExportIn /\ UNCHANGED gwRest
    \/ GwTables /\ UNCHANGED gwRest

SpecTenants == Init /\ [][NextTenants]_vars

(* Statements on their way to the server through the adapters. *)
NextSql ==
    \/ PgExecute /\ UNCHANGED pgRest
    \/ PgExport /\ UNCHANGED pgRest
    \/ PgMongoFind /\ UNCHANGED pgRest
    \/ PgReapply /\ UNCHANGED pgRest

InitSql == RLInit /\ CMInit /\ TXInit /\ AUInit /\ GWInit /\ PGInitCalls /\ SPInit /\ MGInit /\ CLInit /\ HCInit /\ XQInit /\ CSInit /\ RCInit /\ HRInit /\ KAInit /\ BTInit /\ POInit

SpecSql == InitSql /\ [][NextSql]_vars

(* splitSqlStatements on any query. *)
NextSplit == SpSplit /\ UNCHANGED spRest

InitSplit == RLInit /\ CMInit /\ TXInit /\ AUInit /\ GWInit /\ PGInit /\ SPInitQueries /\ MGInit /\ CLInit /\ HCInit /\ XQInit /\ CSInit /\ RCInit /\ HRInit /\ KAInit /\ BTInit /\ POInit

SpecSplit == InitSplit /\ [][NextSplit]_vars

(* parseMongoQuery and the adapter's find on any written call. *)
NextMongo ==
    \/ MgParse /\ UNCHANGED mgRest
    \/ MgExecuteFind /\ UNCHANGED mgRest

InitMongo == RLInit /\ CMInit /\ TXInit /\ AUInit /\ GWInit /\ PGInit /\ SPInit /\ MGInitCalls /\ CLInit /\ HCInit /\ XQInit /\ CSInit /\ RCInit /\ HRInit /\ KAInit /\ BTInit /\ POInit

SpecMongo == InitMongo /\ [][NextMongo]_vars

(* One run of performCleanup. *)
NextCleanup ==
    \/ ClConnecting /\ UNCHANGED clRest
    \/ ClListing /\ UNCHANGED clRest
    \/ ClDropping /\ UNCHANGED clRest
    \/ ClDisconnecting /\ UNCHANGED clRest

SpecCleanup == Init /\ [][NextCleanup]_vars

(* Sessions, their adapters' health checks and closeSession. *)
NextHealth ==
    \/ HcCreating /\ UNCHANGED hcRest
    \/ HcTimer /\ UNCHANGED hcRest
    \/ HcClosing /\ UNCHANGED hcRest
    \/ HcPoolEnding /\ UNCHANGED hcRest
    \/ HcResuming /\ UNCHANGED hcRest

SpecHealth == Init /\ [][NextHealth]_vars

(* Requests to /query/execute and their cancellation by the editor. *)
NextCancel ==
    \/ XqExecuting /\ UNCHANGED xqRest
    \/ XqCancelQuery /\ UNCHANGED xqRest
    \/ XqRunning /\ UNCHANGED xqRest
    \/ XqResponding /\ UNCHANGED xqRest

SpecCancel == Init /\ [][NextCancel]_vars

(* createSession and the adapters it connects. *)
NextCreate ==
    \/ CsCreating /\ UNCHANGED csRest
    \/ (\E ok \in BOOLEAN : CsConnectTemp(ok)) /\ UNCHANGED csRest
    \/ (\E ok \in BOOLEAN : CsProvision(ok)) /\ UNCHANGED csRest
    \/ (\E ok \in BOOLEAN : CsConnectUser(ok)) /\ UNCHANGED csRest
    \/ (\E ok \in BOOLEAN : CsConnectFallback(ok)) /\ UNCHANGED csRest
    \/ (\E ok \in BOOLEAN : CsConnectPlain(ok)) /\ UNCHANGED csRest
    \/ (\E ok \in BOOLEAN : CsServerVersion(ok)) /\ UNCHANGED csRest

SpecCreate == Init /\ [][NextCreate]_vars

(* Overlapping limiter calls on one key. *)
NextRace ==
    \/ (\E k \in RcCalls : RcGet(k)) /\ UNCHANGED rcRest
    \/ (\E k \in RcCalls : RcSet(k)) /\ UNCHANGED rcRest

SpecRace == Init /\ [][NextRace]_vars

hcHrRest == <<rlVars, cmVars, txVars, auVars, gwVars, pgVars, spVars, mgVars, clVars, xqVars, csVars, rcVars, kaVars, btVars, poVars>>

(* Requests on sessions whose health check may fail. *)
NextHealthRequests ==
    \/ HcCreating /\ UNCHANGED hcRest
    \/ (\E id \in HcIds, ok \in BOOLEAN : HrHealthCheck(id, ok)) /\ UNCHANGED hcHrRest
    \/ HcPoolEnding /\ UNCHANGED hcRest
    \/ (\E id \in HcIds, n \in 1..HrMaxStatements : HrExecuteRoute(id, n)) /\ UNCHANGED hrRest
    \/ (\E id \in HcIds, ok \in BOOLEAN : HrStatementSettled(id, ok)) /\ UNCHANGED hrRest

SpecHealthRequests == Init /\ [][NextHealthRequests]_vars

(* Signed requests on a session with an idle timer. *)
NextKeepalive ==
    \/ KaKeepalive /\ UNCHANGED kaRest
    \/ KaExecute /\ UNCHANGED kaRest
    \/ KaSessionTimeout /\ UNCHANGED kaRest
    \/ KaTick /\ UNCHANGED kaRest

SpecKeepalive == Init /\ [][NextKeepalive]_vars

(* One batch through the statement loop. *)
NextBatch ==
    \/ BtArrive /\ UNCHANGED btRest
    \/ BtSettling /\ UNCHANGED btRest

(* The batches and the sessions one request is followed for. *)
InitBatch == RLInit /\ CMInit /\ TXInit /\ AUInit /\ GWInit /\ PGInit /\ SPInit /\ MGInit /\ CLInit /\ HCInit /\ XQInit /\ CSInit /\ RCInit /\ HRInit /\ KAInit /\ BTInitBatches /\ POInit

SpecBatch == InitBatch /\ [][NextBatch]_vars

(* Tenants of the default SQL servers and the cleanup of those servers. *)
NextLiveCleanup ==
    \/ GwConnectTenant /\ UNCHANGED gwRest
    \/ GwExecuteIn /\ UNCHANGED gwRest
    \/ GwDropping /\ UNCHANGED gwRest

SpecLiveCleanup == Init /\ [][NextLiveCleanup]_vars

(* executeQuery calls on the clients of one pool. *)
NextPool ==
    \/ PoExecuting /\ UNCHANGED poRest
    \/ PoConnecting /\ UNCHANGED poRest
    \/ PoSetting /\ UNCHANGED poRest
    \/ PoQuerying /\ UNCHANGED poRest

SpecPool == Init /\ [][NextPool]_vars

(***************************************************************************)
(* Claims.                                                                 *)
(***************************************************************************)

(* C1: in every reachable state of the ConnectionManager every session in
   the sessions map that carries a userId u is the one userSessions[u] points
   to, so that at most one session carries u; createSession calls for one u
   that overlap at their awaits included. *)
C1_OneSessionPerUser ==
    \A u \in CMUsers : \A s \in CMIds :
        (sessions[s] # Nil /\ sessions[s].userId = u) => userSessions[u] = s

(* C3: on every signed endpoint the effect (closing the session, running a
   statement, begin / commit / rollback, setting allowDestructive, reading
   schema) happens only after validateRequestSignature returned valid under
   the session's key. A request with a missing header, a timestamp further
   than the skew from the server clock or a signature whose bytes are not the
   tag of its timestamp and payload changes nothing but lastActivity and is
   answered with an error: 401 when it reaches the signature check, and
   otherwise the status of the earlier check that stopped it. *)
C3_SignatureBeforeEffect ==
    auLast # Nil =>
        /\ (auLast.effect # "none" \/ auLast.changed) => auLast.verdict = "valid"
        /\ auLast.unsigned =>
               /\ auLast.effect = "none"
               /\ ~auLast.changed
               /\ auLast.status \in {400, 401, 404, 413, 429}
               /\ auLast.reached => auLast.status = 401

(* C3 as stated: every request that is not properly signed is answered 401
   and has no effect. *)
C3_Unsigned401 ==
    (auLast # Nil /\ auLast.unsigned) =>
        /\ auLast.status = 401
        /\ auLast.effect = "none"
        /\ ~auLast.changed

(* A replayed query/execute request, its signature right for its own old
   timestamp, is refused at the signature check. *)
C3_Witness ==
    /\ auLast # Nil
    /\ auLast.endpoint = "query/execute"
    /\ auLast.reached
    /\ auLast.verdict = "stale"
    /\ auLast.form = "hex"
    /\ auLast.status = 401

(* C8: under any interleaving of begin / commit / rollback requests on one
   session, every client that beginTransaction took from the pool and that
   has not been released is referenced: it is the adapter's transaction
   handle or the local client of a beginTransaction call still in flight. *)
C8_NoLeakedClient ==
    \A c \in TxClients :
        txPool[c].out =>
            \/ transactionClient = c
            \/ \E k \in TxCalls : txCalls[k].pc = "begin" /\ txCalls[k].client = c

(* C9: the background eviction (idle timer or sweep) starts closing a session
   only when now - lastActivity has reached the idle timeout. *)
C9_NoEvictionWhileFresh ==
    cmEvicted # Nil => cmEvicted.idle >= CMIdleTimeout

(* C6: calls to one limiter with one key that do not overlap, the store
   available. A call that finds no record, or finds now > resetTime, is
   allowed and writes count = 1 and resetTime = now + windowMs. Of the calls
   made within a window exactly the first max are allowed; every further one
   is denied with remaining = 0 and leaves the stored record as it was. *)
C6_FixedWindow ==
    rlLast # Nil =>
        IF rlLast.read = Nil \/ rlLast.now > rlLast.read.resetTime
        THEN /\ rlLast.result.success
             /\ rlLast.after.count = 1
             /\ rlLast.after.resetTime = rlLast.now + WindowMs
        ELSE /\ rlLast.result.success <=> rlLast.index <= RLMax
             /\ rlLast.result.success =>
                    /\ rlLast.after.count = rlLast.index
                    /\ rlLast.after.resetTime = rlLast.read.resetTime
             /\ ~rlLast.result.success =>
                    /\ rlLast.result.remaining = 0
                    /\ rlLast.after = rlLast.before

(* A request denied inside a window, after a window that ran out was
   replaced by a new one. *)
C6_Witness ==
    /\ rlLast # Nil
    /\ ~rlLast.result.success
    /\ rlLast.index = RLMax + 1
    /\ rlLast.read.resetTime > WindowMs

(* C7: a limiter call that meets a storage failure (no Redis client, a failed
   read, a failed write) returns success = true and does not throw. *)
C7_FailOpen ==
    (rlLast # Nil /\ rlLast.fail # "ok") =>
        /\ rlLast.result.success
        /\ ~rlLast.result.threw

(* The read fails on a key whose record, had it been read, would have denied
   the request; and, separately reachable, no client at all. *)
C7_Witness ==
    /\ rlLast # Nil
    /\ rlLast.fail \in {"read", "client"}
    /\ rlLast.before # Nil
    /\ rlLast.before.count >= RLMax
    /\ rlLast.now <= rlLast.before.resetTime
    /\ rlLast.now < rlLast.before.expireAt
    /\ rlLast.result.success

(***************************************************************************)
(* C2.  Tenant isolation: a request on one isolated session is never       *)
(* resolved by the server against the user database of another live        *)
(* isolated session of the same type and a different userId, whatever the  *)
(* request's database parameter and statement.                             *)
(***************************************************************************)
C2_TenantIsolation ==
    \A s \in GwIds, o \in GwIds :
        ( /\ gwLast # Nil
          /\ gwLast.sid = s
          /\ gwLast.endpoint \in {"query/execute", "query/export", "schema/tables"}
          /\ s # o
          /\ gwSessions[s] # Nil /\ gwSessions[o] # Nil
          /\ gwSessions[s].isIsolated /\ gwSessions[o].isIsolated
          /\ gwSessions[s].type = gwSessions[o].type
          /\ gwSessions[s].userId # gwSessions[o].userId
          /\ gwSessions[s].userDatabase # "none" /\ gwSessions[o].userDatabase # "none" )
        => gwLast.touched # gwSessions[o].userDatabase

(***************************************************************************)
(* C4.  On a session made by the connect endpoint with a default URL,      *)
(* isolated or not, whose allowDestructive is false, a DROP, a TRUNCATE    *)
(* TABLE or a DELETE FROM that /query/execute accepts is answered with the *)
(* synthetic row and no statement goes to the server.                      *)
(***************************************************************************)
C4_DestructiveSimulated ==
    \A s \in GwIds :
        ( /\ gwLast # Nil
          /\ gwLast.sid = s
          /\ gwLast.endpoint = "query/execute"
          /\ gwLast.status = 200
          /\ gwLast.kind \in {"drop_table", "truncate_table", "delete"}
          /\ gwSessions[s] # Nil
          /\ ~gwSessions[s].isDefaultConnection
          /\ gwSessions[s].adapter.url.base = "default"
          /\ ~gwSessions[s].allowDestructive )
        => gwLast.simulated /\ ~gwLast.sent

(***************************************************************************)
(* C5.  Once session-extend has set allowDestructive on a session, a       *)
(* destructive statement that /query/execute accepts on it goes to the     *)
(* server and is not simulated, whatever the type of the session.          *)
(***************************************************************************)
C5_ExtendedRunsDestructive ==
    \A s \in GwIds :
        ( /\ gwLast # Nil
          /\ gwLast.sid = s
          /\ gwLast.endpoint = "query/execute"
          /\ gwLast.status = 200
          /\ gwLast.kind \in {"drop_table", "truncate_table", "delete"}
          /\ gwSessions[s] # Nil
          /\ gwSessions[s].allowDestructive )
        => gwLast.sent /\ ~gwLast.simulated

(***************************************************************************)
(* C10.  On an isolated MySQL session with a user database, an export      *)
(* whose statement names a database outside the user database and the      *)
(* request's database parameter, compared without case, never reaches      *)
(* adapter.executeQuery.                                                   *)
(***************************************************************************)
C10_ExportStaysInside ==
    \A s \in GwIds :
        ( /\ gwLast # Nil
          /\ gwLast.sid = s
          /\ gwLast.endpoint = "query/export"
          /\ gwSessions[s] # Nil
          /\ gwSessions[s].isIsolated
          /\ gwSessions[s].type = "mysql"
          /\ gwSessions[s].userDatabase # "none"
          /\ gwLast.ref # "none"
          /\ toLowerCase(gwLast.ref) # toLowerCase(gwSessions[s].userDatabase)
          /\ (gwLast.database \in {"none", ""}
                \/ toLowerCase(gwLast.ref) # toLowerCase(gwLast.database)) )
        => ~gwLast.sent

(***************************************************************************)
(* C18.  Every recorded session that is isolated has a user database: when *)
(* provisioning fails the session is recorded as not isolated.             *)
(***************************************************************************)
C18_IsolatedHasUserDatabase ==
    \A s \in GwIds :
        (gwSessions[s] # Nil /\ gwSessions[s].isIsolated) => gwSessions[s].userDatabase # "none"

(***************************************************************************)
(* C19.  A session just made by the connect endpoint has                   *)
(* isDefaultConnection exactly when the URL of the request is the          *)
(* configured default of its type.                                         *)
(***************************************************************************)
C19_DefaultConnectionFlag ==
    \A s \in GwIds :
        (gwLast # Nil /\ gwLast.endpoint = "connect" /\ gwLast.sid = s)
        => (gwSessions[s].isDefaultConnection
            <=> gwSessions[s].adapter.url.base = loadDefaultDatabases[gwSessions[s].type].base)

(***************************************************************************)
(* C20.  A session with allowDestructive is a default connection, and a    *)
(* session-extend that is refused (unknown session, not a default          *)
(* connection, wrong code) leaves every session as it was.                 *)
(***************************************************************************)
C20_AllowImpliesDefault ==
    /\ [](\A s \in GwIds : (gwSessions[s] # Nil /\ gwSessions[s].allowDestructive)
                              => gwSessions[s].isDefaultConnection)
    /\ [][(gwLast' # gwLast /\ gwLast'.endpoint = "session-extend" /\ gwLast'.status # 200)
            => gwSessions' = gwSessions]_vars
    /\ [][\A s \in GwIds :
            (gwSessions[s] # Nil /\ gwSessions'[s] # Nil
             /\ ~gwSessions[s].allowDestructive /\ gwSessions'[s].allowDestructive)
            => (gwLast'.endpoint = "session-extend" /\ gwLast'.sid = s /\ gwLast'.status = 200
                /\ gwSessions'[s].isDefaultConnection)]_vars

C20_Witness ==
    \E s \in GwIds, o \in GwIds :
        /\ gwSessions[s] # Nil /\ gwSessions[s].allowDestructive
        /\ gwSessions[o] # Nil /\ ~gwSessions[o].isDefaultConnection
        /\ gwLast # Nil /\ gwLast.endpoint = "session-extend" /\ gwLast.sid = o
        /\ gwLast.status = 401 /\ ~gwSessions[o].allowDestructive

(***************************************************************************)
(* C11.  An export returns every row the statement matches: a SELECT       *)
(* without LIMIT goes to the server as written, and a find without a       *)
(* chained limit is not limited.                                           *)
(***************************************************************************)
C11_ExportUnlimited ==
    ( /\ pgLast # Nil
      /\ pgCall.call = "query/export"
      /\ \/ /\ pgCall.type = "sql"
            /\ PgTrim(pgCall.query) # <<>>
            /\ PgLower(PgTrimStart(pgCall.query)[1]) = "select"
            /\ ~PgIncludes(pgCall.query, ";")
            /\ ~LIMIT_REGEX(pgCall.query)
         \/ /\ pgCall.type = "mongodb"
            /\ pgCall.chain = <<>> )
    => /\ pgLast.returned = PgMaxRows
       /\ pgCall.type = "sql" => pgLast.out = pgCall.query

(***************************************************************************)
(* C14.  applySqlPagination returns its input when the statement is empty, *)
(* is not SELECT-like, has a semicolon before an optional last one, or     *)
(* contains LIMIT or FETCH FIRST; otherwise what it returns contains       *)
(* LIMIT and a number; and applied to what it returned it returns the      *)
(* same.                                                                   *)
(***************************************************************************)
C14_PaginationIdempotent ==
    (pgLast # Nil /\ pgCall.type = "sql") =>
        LET q == pgCall.query
            body == PgTrim(q)
            single == IF body # <<>> /\ body[Len(body)] = ";"
                      THEN SubSeq(body, 1, Len(body) - 1) ELSE body
            untouched == \/ body = <<>>
                         \/ PgLower(body[1]) \notin {"select", "with", "show", "describe",
                                                       "explain"}
                         \/ PgIncludes(single, ";")
                         \/ \E i \in 1..Len(q) : q[i] \in {"limit", "LIMIT"}
                         \/ \E i \in 1..Len(q), j \in 1..Len(q) :
                                /\ i + 1 < j /\ q[i] = "fetch" /\ q[j] = "first"
                                /\ \A k \in (i + 1)..(j - 1) : q[k] = " "
        IN /\ untouched => pgLast.out = q
           /\ ~untouched =>
                \E i \in 1..(Len(pgLast.out) - 2) :
                    /\ pgLast.out[i] = "LIMIT" /\ pgLast.out[i + 1] = " "
                    /\ PgIsNumber(pgLast.out[i + 2])
           /\ pgLast.reapplied => pgLast.again = pgLast.out

C14_Witness ==
    /\ pgLast # Nil
    /\ pgCall.type = "sql"
    /\ pgLast.reapplied
    /\ pgCall.query = <<" ", "select", ";", " ">>
    /\ pgLast.out = <<"select", " ", "LIMIT", " ", "1", " ", "OFFSET", " ", "1", ";">>
    /\ pgLast.again = pgLast.out


(* C13: splitSqlStatements splits only at semicolons outside strings, quoted
   identifiers, comments and dollar-quoted bodies.  Its case checked here:
   in a query without quotes and dollar signs, a semicolon after the "--"
   that opens a line comment is inside the comment, so the query has at most
   one statement more than it has semicolons before that comment. *)
C13_NoSplitInsideComment ==
    (/\ spOut # Nil
     /\ \A i \in 1..Len(spQuery) : spQuery[i] \notin {"'", "\"", "$"}
     /\ \E i \in 1..(Len(spQuery) - 1) : spQuery[i] = "-" /\ spQuery[i + 1] = "-")
    => LET opening == CHOOSE i \in 1..(Len(spQuery) - 1) :
                          /\ spQuery[i] = "-" /\ spQuery[i + 1] = "-"
                          /\ \A k \in 1..(i - 1) : ~(spQuery[k] = "-" /\ spQuery[k + 1] = "-")
           before == Cardinality({k \in 1..(opening - 1) : spQuery[k] = ";"})
       IN Len(spOut.statements) <= before + 1


(* C15: for find and findOne, parseMongoQuery returns as many args as
   top-level arguments were written, the chained calls are not among them,
   and the adapter passes the second of them as the projection exactly when
   it is a non-empty object. *)
C15_ArgsAsWritten ==
    /\ (mgParsed # Nil /\ mgParsed.ok) =>
           /\ Len(mgParsed.args) = Len(mgCall.written)
           /\ Len(mgParsed.chain) = (IF mgCall.chain = <<>> THEN 0 ELSE 1)
    /\ mgFind # Nil =>
           (mgFind.projection # <<>> <=>
                /\ Len(mgCall.written) >= 2
                /\ mgCall.written[2].kind = "object"
                /\ mgCall.written[2].keys > 0)


(* C15, amended: the args are the written arguments, in order, except that
   an argument list consisting of one array literal yields the elements of
   that array; the chained calls are not among the args; and the adapter
   passes the second of the args as the projection exactly when it is a
   non-empty object. *)
C15_ArgsAsParsed ==
    /\ mgParsed # Nil =>
           /\ mgParsed.ok
           /\ mgParsed.args = (IF Len(mgCall.written) = 1 /\ mgCall.written[1].kind = "array"
                               THEN mgCall.written[1].items
                               ELSE mgCall.written)
           /\ Len(mgParsed.chain) = (IF mgCall.chain = <<>> THEN 0 ELSE 1)
    /\ mgFind # Nil =>
           /\ mgFind.projection # <<>> <=>
                  /\ Len(mgParsed.args) >= 2
                  /\ mgParsed.args[2].kind = "object"
                  /\ mgParsed.args[2].keys > 0
           /\ mgFind.projection # <<>> => mgFind.projection[1] = mgParsed.args[2]

C15_Witness ==
    /\ mgFind # Nil
    /\ mgCall.chain # <<>>
    /\ Len(mgCall.written) = 2
    /\ mgCall.written[2].kind = "object"
    /\ mgFind.projection # <<>>


(* C16: performCleanup attempts every configured default database even when
   an earlier one failed; every adapter it connected and is done with has
   been disconnected, whether dropAllUserDatabases returned or threw; and
   once the loop of dropAllUserDatabases is over, the DROP of every
   non-system database of that server has been attempted, also after a
   failed one. *)
C16_CleanupContinues ==
    LET past == {ClConfigs[k] : k \in 1..(clIndex - 1)}
        users(type) == {ClNames(type)[k] : k \in 1..Len(ClNames(type))} \ ClSystem(type)
    IN /\ clPhase = "done" => clLog.attempted = {ClConfigs[k] : k \in 1..Len(ClConfigs)}
       /\ past \subseteq clLog.attempted
       /\ clLog.connected \cap past \subseteq clLog.disconnected
       /\ \A type \in clLog.listed :
              (type \in past \/ clPhase = "finally") =>
                  \A name \in users(type) : <<type, name>> \in clLog.tried

C16_Witness ==
    /\ clPhase = "done"
    /\ "mongodb" \notin clLog.connected
    /\ <<"postgresql", "u_a">> \in clLog.failed
    /\ <<"postgresql", "u_b">> \in clLog.dropped
    /\ "mysql" \in clLog.connected /\ "mysql" \notin clLog.listed
    /\ "mysql" \in clLog.disconnected


(* C17: a session that is in the sessions map has an adapter for which
   isConnected() is true.  Its case checked here: a session for which
   closeSession has not been called. *)
C17_ConnectedWhileRecorded ==
    \A id \in HcIds : hcSessions[id] = "open" => isConnected(hcAdapters[id])


(* C12: when the client aborts a /query/execute request that is in flight,
   the handler attempts to interrupt the driver call, and what is reported
   for the request is a cancellation, not a failure.  Checked at the end of
   the handler: a request aborted while the handler was running has had a
   cancel call made on the driver, and the editor shows it as cancelled. *)
C12_AbortInterruptsDriver ==
    \A r \in XqIds :
        (xqRequests[r].abortedInFlight /\ xqRequests[r].state = "responded") =>
            /\ "cancel" \in xqRequests[r].driverCalls
            /\ xqRequests[r].shown = "cancelled"


(* C21: when createSession throws because adapter.connect failed (on the
   non-isolated path or on the fallback connect), the sessions map and the
   userSessions map hold no entry they did not hold when the call began its
   connect. *)
C21_NoSessionOnConnectFailure ==
    (csLast # Nil /\ csLast.outcome = "threw" /\ csLast.cause = "connect" /\ csCall = Nil) =>
        /\ CsRecorded(csSessions) \subseteq csLast.before
        /\ {csUserSessions[u] : u \in GwUsers} \subseteq csLast.usersBefore

C21_Witness ==
    /\ csLast # Nil /\ csLast.outcome = "threw" /\ csLast.cause = "connect" /\ csCall = Nil
    /\ csCalls = 2
    /\ csLast.before # {}
    /\ \E a \in CsAdapterIds : csAdapters[a].made /\ ~csAdapters[a].connected
                               /\ \E b \in CsAdapterIds : b > a /\ csAdapters[b].connected

(* C28: whenever createSession has returned or thrown, every adapter it
   connected is the adapter of a recorded session or has been disconnected,
   its pool ended and its health-check timer stopped. *)
C28_NoAdapterLeft ==
    csCall = Nil =>
        \A a \in CsAdapterIds :
            csAdapters[a].connected =>
                \/ csSessions[a] # Nil
                \/ ~csAdapters[a].pool /\ ~csAdapters[a].healthCheckInterval


(* C22: within one window and for one key, each allowed request is told a
   remaining value strictly less than the allowed request before it, for
   any interleaving of the limiter calls. *)
C22_RemainingDecreases ==
    \A i \in 1..Len(rcAllowed) : \A j \in 1..Len(rcAllowed) :
        i < j => rcAllowed[j] < rcAllowed[i]


(* C23: a commitTransaction or rollbackTransaction call ends with no active
   transaction, whether its COMMIT / ROLLBACK succeeded or threw; when it
   settles, the adapter's dedicated client, if there is one, goes back to
   the pool, once, and no other client does; and a call that finds no active
   transaction fails with 'No active transaction' and releases nothing. *)
C23_EndReleasesOnce ==
    /\ [](txLast # Nil /\ txLast.action \in {"commit", "rollback"} => txLast.handle = 0)
    /\ [][(\E k \in TxCalls : txCalls[k].pc = "end" /\ txCalls'[k].pc = "idle") =>
              /\ transactionClient' = 0
              /\ \A c \in TxClients :
                     IF c = transactionClient
                     THEN txPool[c].out /\ ~txPool'[c].out
                     ELSE txPool'[c].out = txPool[c].out]_vars
    /\ [][(/\ txLast' # txLast
           /\ txLast' # Nil
           /\ txLast'.error = "No active transaction") =>
              txPool' = txPool /\ transactionClient' = transactionClient]_vars

C23_Witness ==
    /\ txLast # Nil
    /\ txLast.action = "commit"
    /\ txLast.error = "query failed"
    /\ transactionClient = 0
    /\ \A c \in TxClients : ~txPool[c].out


(* C24: in /query/execute the dangerous-pattern detection is applied to a
   statement exactly when the session targets a default connection.  Its
   case checked here: an ALTER TABLE, which matches a dangerous SQL pattern,
   on a PostgreSQL or MySQL session is refused exactly when the session's
   server is the configured default. *)
C24_DetectionOnDefaultOnly ==
    (/\ gwLast # Nil
     /\ gwLast.endpoint = "query/execute"
     /\ gwLast.kind = "alter_table"
     /\ gwSessions[gwLast.sid] # Nil
     /\ gwSessions[gwLast.sid].type # "mongodb")
    => ((gwLast.status = 400 /\ ~gwLast.sent)
            <=> gwSessions[gwLast.sid].adapter.url.base = "default")


(* C25: a failed health check of a SQL adapter fails no request that is in
   flight at that moment.  Checked at the end of the request: a request
   that was running when the health check failed, and whose statements the
   driver all answered, ends with status 200. *)
C25_HealthCheckSparesRequest ==
    \A id \in HcIds :
        (hrRequests[id].pc = "done" /\ hrRequests[id].hit /\ hrRequests[id].error # "query failed")
            => hrRequests[id].status = 200


(* C26: a request that names the live session S and is rejected for a
   missing, stale or wrong signature leaves the record of S as it was:
   lastActivity and the idle timer are not moved. *)
C26_RejectedLeavesSession ==
    (kaLast # Nil /\ kaLast.before.live /\ kaLast.status = 401)
        => kaSession = kaLast.before


(* C27: the statements of a SQL batch go to the adapter one at a time in
   source order; statement i is sent only after statements 1..i-1 were
   each validated and executed without error; a validation or driver
   failure at statement i is answered 400 with no statement after i sent
   and with the effects of statements 1..i-1 in place; a batch without a
   failure is answered 200 with every statement executed. *)
C27_BatchStopsAtFirstFailure ==
    LET request == btRequest
        sent == {request.sent[k] : k \in 1..Len(request.sent)}
    IN /\ \A k \in 1..Len(request.sent) : request.sent[k] = k
       /\ \A i \in sent :
              /\ validateQuery("postgresql", btBatch[i], btIsolated)
              /\ \A j \in 1..(i - 1) : j \in request.effects
       /\ request.effects \subseteq sent
       /\ request.status = 400 =>
              /\ request.pc = "done"
              /\ sent \subseteq 1..request.index
              /\ request.effects = 1..(request.index - 1)
       /\ request.status = 200 =>
              /\ request.pc = "done"
              /\ request.effects = 1..Len(btBatch)

(* A batch of three statements whose second statement the driver rejects:
   the first statement's effect stays and the third is never sent. *)
C27_Witness ==
    /\ Len(btBatch) = 3
    /\ btRequest.pc = "done"
    /\ btRequest.status = 400
    /\ btRequest.sent = <<1, 2>>
    /\ btRequest.effects = {1}
    /\ validateQuery("postgresql", btBatch[3], btIsolated)


(* C29: for every isolated session in the sessions map the database named
   by session.userDatabase exists on the server of the session, in every
   reachable state, cleanup included. *)
C29_UserDatabaseExists ==
    \A s \in GwIds :
        (gwSessions[s] # Nil /\ gwSessions[s].isIsolated /\ gwSessions[s].userDatabase # "none")
            => <<gwSessions[s].type, gwSessions[s].adapter.url.base,
                 gwSessions[s].userDatabase>> \in gwDatabases


(* C30: a query whose executeQuery call passes no database argument runs
   with the connection's original default database / search_path, whatever
   database arguments earlier calls on the adapter passed. *)
C30_NoDatabaseRunsOnDefault ==
    (poLast # Nil /\ poLast.database = "none") => poLast.ranWith = "default"

====
